---- MODULE Spec2Model ----
(***************************************************************************)
(* uqfindexec (A3): the per-file command-pipeline execution engine.        *)
(* The coordinator is run_pipeline() called from main(); its children are  *)
(* the processes forked by spawn_child().  One coordinator step is one     *)
(* place where the coordinator can be interrupted by SIGINT or has to      *)
(* wait for a child, so that every interleaving of handle_sigint() and of  *)
(* child termination with the coordinator is a behaviour of the model.     *)
(***************************************************************************)
EXTENDS Integers, Sequences, FiniteSets, TLC

\* ------------------------------------------------------------------ bounds
\* files of a sequential run, files of a parallel run, stages of the pipeline
MaxFiles == 3
MaxParFiles == 2
MaxStages == 2
\* characters of a template, characters of a fill string
MaxTemplateLen == 4
MaxFillLen == 2
\* highest descriptor the coordinator may hold open when validate_files is called
MaxFd == 2
\* uqimageproc: the largest --maxConns value, and how many times accept() is called
MaxConnsArg == 2
MaxAccepts == 4

\* ------------------------------------------------- enum ExitStatus, Values
DIR_ERROR == 6
CMD_ERROR == 9
PROCESS_ERROR == 16
CHILD_PROCESS_ERROR == 99
SIGINT_REC == 17
SUCCESS == 0
FAIL == 1
SIGNAL == 2
NOTEXEC == 3
TOTAL_STATS == 4

\* exit code of main() when it falls through to "return 0"
EXIT_OK == 0

\* ------------------------------------------------------ wait(2) statuses
\* The status word waitpid() stores: exit code in bits 8..15, terminating
\* signal in bits 0..6.
W_EXITCODE(ret, sig) == ret * 256 + sig
WIFEXITED(status) == (status % 128) = 0
WEXITSTATUS(status) == (status \div 256) % 256
WIFSIGNALED(status) == (status % 128) # 0 /\ (status % 128) # 127

\* What a child whose program did start can leave behind: exit 0, exit 1,
\* exit 99 of its own accord, or death by signal (SIGKILL, 9).
ProgramStatuses ==
    { W_EXITCODE(0, 0), W_EXITCODE(1, 0),
      W_EXITCODE(CHILD_PROCESS_ERROR, 0), W_EXITCODE(0, 9) }

\* the child side with _exit(1) after a failed execvp()
ChildStatuses_exit1(canExec) ==
    IF canExec THEN ProgramStatuses
    ELSE { W_EXITCODE(1, 0) }

\* spawn_child(), child side: execvp() either replaces the child by the
\* program, or returns and the child does _exit(CHILD_PROCESS_ERROR).
ChildStatuses(canExec) ==
    IF canExec THEN ProgramStatuses
    ELSE { W_EXITCODE(CHILD_PROCESS_ERROR, 0) }

VARIABLES
    config,          \* Settings: [parallel, sigInt, statistics]
    pipeline,        \* CommandPipeline: [numCmds]
    fileList,        \* FileList: [count]
    runnable,        \* per stage: can execvp() start cmd[0]
    sigintReceived,  \* the global flag
    stats,           \* int stats[5]
    pc,              \* the coordinator's position
    i,               \* run_pipeline's loop variable (both loops)
    cmdIdx,          \* loop variable of exec_cmd / reap_children
    pids,            \* pid_t** pids: slot -> array of pids (<<>> is NULL)
    procs,           \* process table: pid -> [file, stage, st]
    statuses,        \* int statuses[numCmds] of reap_children
    exitCode,        \* exit status of uqfindexec, -1 while it runs
    validated,       \* history: result of validate_files per file
    cancelAt,        \* history: tally when a sequential run first stood
                     \* between two files with the flag set
    counted,         \* history: file -> times it was added to the total
    scripted,        \* is the environment of the run replayed from script
    script,          \* per file: [valid, sts], what open() and the children do
    run,             \* 1, or 2 for the second run over the same script
    firstStats,      \* the tally the first run ended with
    hp,              \* one call of handle_placeholders: [phase, checkStr,
                     \* fill, newStr, size]
    vf,              \* one call of validate_files: [phase, inputFile,
                     \* outputFile, inOpens, outOpens, fds0, fds, log, ret]
    args,            \* the command line and the directory: [dir, cmd, scans]
    report,          \* what print_exit has written to stderr
    srv,             \* uqimageproc: [maxConns, maxConnsLock, acceptor,
                     \* accepts, clients]
    px               \* exec_cmd with the descriptor tables: [phase, numCmds,
                     \* stdinFileName, stdoutFileName, tab0, tab, file,
                     \* cmdIdx, prevPipe, npipes, kids]

\* what the run only reads
inputs == << pipeline, fileList, runnable, scripted, script, hp, vf, args,
            srv >>

\* what no step of run_pipeline writes
env == << inputs, report >>

vars == << config, pipeline, fileList, runnable, sigintReceived, stats, pc, i,
           cmdIdx, pids, procs, statuses, exitCode, validated, cancelAt,
           counted, scripted, script, run, firstStats, hp, vf, args, report, px,
           srv >>

Files == 0 .. (fileList.count - 1)
Stages == 0 .. (pipeline.numCmds - 1)

NULL == << >>
NoCancel == [stats |-> [k \in 0 .. TOTAL_STATS |-> -1], spawned |-> -1]

\* -------------------------------------------------------- handle_placeholders
\* A C string is the sequence of its characters.
Alphabet == {"{", "}", "a"}
Strings(maxLen) == UNION { [1 .. n -> Alphabet] : n \in 0 .. maxLen }

\* strstr(str + from - 1, "{}"): the index of the first "{}" at or after
\* from, 0 (NULL) when there is none
strstr(str, from) ==
    LET hits == { p \in from .. (Len(str) - 1) : str[p] = "{" /\ str[p + 1] = "}" }
    IN IF hits = {} THEN 0
       ELSE CHOOSE p \in hits : \A q \in hits : p <= q

RECURSIVE CountLoop(_, _)
\* the loop of count_placeholders: count++, checkStr += 2
CountLoop(checkStr, from) ==
    LET found == strstr(checkStr, from)
    IN IF found = 0 THEN 0
       ELSE 1 + CountLoop(checkStr, found + 2)

count_placeholders(checkStr) == CountLoop(checkStr, 1)

\* size_t size = strlen(checkStr) - (count * 2) + (count * strlen(fill)) + 1
NewStrSize(checkStr, fill) ==
    LET count == count_placeholders(checkStr)
    IN Len(checkStr) - (count * 2) + (count * Len(fill)) + 1

RECURSIVE FillLoop(_, _, _, _)
\* the while (1) loop of handle_placeholders: tempPtr is the index in
\* checkStr to go on from, newStr what has been written so far
FillLoop(checkStr, fill, tempPtr, newStr) ==
    LET nextPlaceholder == strstr(checkStr, tempPtr)
    IN IF nextPlaceholder # 0
       THEN FillLoop(checkStr, fill, nextPlaceholder + 2,
                     newStr \o SubSeq(checkStr, tempPtr, nextPlaceholder - 1)
                            \o fill)
       ELSE newStr \o SubSeq(checkStr, tempPtr, Len(checkStr))

\* handle_placeholders that scans its own result once more
handle_placeholders_twice(checkStr, fill) ==
    FillLoop(FillLoop(checkStr, fill, 1, << >>), fill, 1, << >>)

\* handle_placeholders that replaces the first placeholder only
handle_placeholders_firstonly(checkStr, fill) ==
    LET found == strstr(checkStr, 1)
    IN IF found = 0 THEN checkStr
       ELSE SubSeq(checkStr, 1, found - 1) \o fill
            \o SubSeq(checkStr, found + 2, Len(checkStr))

handle_placeholders(checkStr, fill) ==
    IF count_placeholders(checkStr) = 0
    THEN checkStr
    ELSE FillLoop(checkStr, fill, 1, << >>)

\* cmd_copy that copies the command line as it is
cmd_copy_plain(oldCmd, fileName) == oldCmd

\* cmd_copy: newCmd[count++] = handle_placeholders(*oldCmd, fileName)
cmd_copy(oldCmd, fileName) ==
    [a \in 1 .. Len(oldCmd) |-> handle_placeholders(oldCmd[a], fileName)]

\* pipeline->cmdArray[c]: every stage is `echo {}`, or `falseprog {}` where
\* execvp() is to fail
CmdArray(c) ==
    << IF runnable[c] THEN << "e", "c", "h", "o" >>
                      ELSE << "f", "a", "l", "s", "e", "p", "r", "o", "g" >>,
       << "{", "}" >> >>

\* fileList.files[f]: a.txt, b.txt, ...
FileName(f) ==
    << << "a", "b", "c", "d", "e", "f", "g", "h" >>[f + 1], ".", "t", "x", "t" >>

NoCall == [phase |-> "idle", checkStr |-> << >>, fill |-> << >>,
           newStr |-> << >>, size |-> 0]

\* ------------------------------------------------------------ validate_files
\* inputFile / outputFile: is the redirection given; inOpens / outOpens:
\* would open() succeed.  try_open_file() returns -1 exactly when it fails.
\* fds is the set of descriptors the process holds open; log lists the
\* calls made.

\* open(): the lowest descriptor not in use, or -1
open(fds, opens) ==
    IF opens THEN CHOOSE d \in 0 .. (MaxFd + 2) :
                    d \notin fds /\ \A e \in 0 .. (d - 1) : e \in fds
    ELSE -1

\* try_open_file: [file, fds, log]
try_open_file(fds, readOrWrite, opens) ==
    LET file == open(fds, opens)
        flags == IF readOrWrite THEN "O_RDONLY" ELSE "O_WRONLY|O_CREAT|O_TRUNC"
        call == [call |-> "open", arg |-> flags, file |-> file]
    IN IF file < 0
       THEN [file |-> -1, fds |-> fds,
             log |-> << call,
                        [call |-> "fprintf",
                         arg |-> IF readOrWrite THEN "readError" ELSE "writeError",
                         file |-> 2] >>]
       ELSE [file |-> file, fds |-> fds \cup {file}, log |-> << call >>]

\* close(testopen)
close(fds, testopen) == fds \ {testopen}

\* validate_files that leaves the input file open
ValidateRun_noclose(fds, inputFile, outputFile, inOpens, outOpens) ==
    LET in == IF inputFile THEN try_open_file(fds, TRUE, inOpens)
              ELSE [file |-> 0, fds |-> fds, log |-> << >>]
    IN IF inputFile /\ in.file = -1
       THEN [ret |-> FALSE, fds |-> in.fds, log |-> in.log]
       ELSE LET out == IF outputFile THEN try_open_file(in.fds, FALSE, outOpens)
                       ELSE [file |-> 0, fds |-> in.fds, log |-> << >>]
            IN IF outputFile /\ out.file = -1
               THEN [ret |-> FALSE, fds |-> out.fds, log |-> in.log \o out.log]
               ELSE [ret |-> TRUE,
                     fds |-> IF outputFile THEN close(out.fds, out.file)
                             ELSE out.fds,
                     log |-> in.log \o out.log
                             \o IF outputFile
                                THEN << [call |-> "close", arg |-> "", file |-> out.file] >>
                                ELSE << >>]

\* validate_files run from the descriptor table fds: [ret, fds, log]
ValidateRun(fds, inputFile, outputFile, inOpens, outOpens) ==
    LET in == IF inputFile THEN try_open_file(fds, TRUE, inOpens)
              ELSE [file |-> 0, fds |-> fds, log |-> << >>]
        inClosed ==
            IF inputFile /\ in.file # -1
            THEN [fds |-> close(in.fds, in.file),
                  log |-> in.log
                          \o << [call |-> "close", arg |-> "", file |-> in.file] >>]
            ELSE [fds |-> in.fds, log |-> in.log]
    IN IF inputFile /\ in.file = -1
       THEN [ret |-> FALSE, fds |-> in.fds, log |-> in.log]
       ELSE LET out == IF outputFile
                       THEN try_open_file(inClosed.fds, FALSE, outOpens)
                       ELSE [file |-> 0, fds |-> inClosed.fds, log |-> << >>]
            IN IF outputFile /\ out.file = -1
               THEN [ret |-> FALSE, fds |-> out.fds,
                     log |-> inClosed.log \o out.log]
               ELSE [ret |-> TRUE,
                     fds |-> IF outputFile THEN close(out.fds, out.file)
                             ELSE out.fds,
                     log |-> inClosed.log \o out.log
                             \o IF outputFile
                                THEN << [call |-> "close", arg |-> "", file |-> out.file] >>
                                ELSE << >>]

\* the descriptors of a process started from a shell
StdFds == {0, 1, 2}

validate_files(inputFile, outputFile, inOpens, outOpens) ==
    ValidateRun(StdFds, inputFile, outputFile, inOpens, outOpens).ret

NoValidation == [phase |-> "idle", inputFile |-> FALSE, outputFile |-> FALSE,
                 inOpens |-> FALSE, outOpens |-> FALSE, fds0 |-> {}, fds |-> {},
                 log |-> << >>, ret |-> FALSE]

\* ------------------------------------------------- spawn_child, descriptors
\* A descriptor table maps each descriptor to what it refers to: nothing
\* ("closed"), what the coordinator was started with ("std", id the
\* descriptor it was inherited at), the read or write end of pipe id ("r",
\* "w"), or the input or output redirection file ("in", "out").
FdNums == 0 .. (MaxFd + 4)
Closed == [kind |-> "closed", id |-> 0]
Std(fd) == [kind |-> "std", id |-> fd]
ReadEnd(id) == [kind |-> "r", id |-> id]
WriteEnd(id) == [kind |-> "w", id |-> id]
InFile == [kind |-> "in", id |-> 0]
OutFile == [kind |-> "out", id |-> 0]

\* the descriptors at which a table holds the given pipe end
HeldAt(tab, end) == { d \in DOMAIN tab : tab[d] = end }

\* the lowest descriptor not in use, which open() and pipe() return
LowestFree(tab) ==
    CHOOSE d \in FdNums :
        tab[d] = Closed /\ \A e \in 0 .. (d - 1) : tab[e] # Closed

\* pipe(nextPipe): [tab, rd, wr]
fd_pipe(tab, id) ==
    LET rd == LowestFree(tab)
        t1 == [tab EXCEPT ![rd] = ReadEnd(id)]
        wr == LowestFree(t1)
    IN [tab |-> [t1 EXCEPT ![wr] = WriteEnd(id)], rd |-> rd, wr |-> wr]

\* dup2(oldfd, newfd): nothing happens when oldfd is not open or equals newfd
fd_dup2(tab, oldfd, newfd) ==
    IF oldfd \notin FdNums \/ tab[oldfd] = Closed \/ oldfd = newfd THEN tab
    ELSE [tab EXCEPT ![newfd] = tab[oldfd]]

\* close(fd)
fd_close(tab, fd) ==
    IF fd \in FdNums THEN [tab EXCEPT ![fd] = Closed] ELSE tab

\* redirect_from_file / redirect_to_file: the file was opened by
\* validate_files before and is taken to open again
redirect_file(tab, what, target) ==
    LET file == LowestFree(tab)
        opened == [tab EXCEPT ![file] = what]
    IN fd_close(fd_dup2(opened, file, target), file)

\* redirect_from_pipe(pipe)
redirect_from_pipe(tab, pipe) == fd_close(fd_dup2(tab, pipe, 0), pipe)

\* redirect_to_pipe without close(pipe[READ])
redirect_to_pipe_keepsread(tab, rd, wr) ==
    fd_close(fd_dup2(tab, wr, 1), wr)

\* redirect_to_pipe(pipe)
redirect_to_pipe(tab, rd, wr) ==
    fd_close(fd_dup2(fd_close(tab, rd), wr, 1), wr)

\* spawn_child, the child after fork(): its table when it calls execvp()
ChildTable(tab, numCmds, idx, stdinFileName, stdoutFileName, prevPipe, rd, wr) ==
    LET t1 == IF stdinFileName /\ idx = 0
              THEN redirect_file(tab, InFile, 0)
              ELSE IF idx > 0 /\ numCmds > 1
                   THEN redirect_from_pipe(tab, prevPipe)
                   ELSE tab
    IN IF stdoutFileName /\ idx = numCmds - 1
       THEN redirect_file(t1, OutFile, 1)
       ELSE IF idx < numCmds - 1 /\ numCmds > 1
            THEN redirect_to_pipe(t1, rd, wr)
            ELSE t1

\* the parent after fork() that keeps the previous pipe's read end open
ParentTable_keepsprev(tab, idx, prevPipe, hasNext, wr) ==
    IF hasNext THEN fd_close(tab, wr) ELSE tab

\* the parent after fork() that keeps the next pipe's write end open
ParentTable_keepswrite(tab, idx, prevPipe, hasNext, wr) ==
    IF idx > 0 THEN fd_close(tab, prevPipe) ELSE tab

\* spawn_child, the parent after fork(); hasNext: nextPipe is not NULL
ParentTable(tab, idx, prevPipe, hasNext, wr) ==
    LET t1 == IF hasNext THEN fd_close(tab, wr) ELSE tab
    IN IF idx > 0 THEN fd_close(t1, prevPipe) ELSE t1

\* uqimageproc is not running
NoServer == [maxConns |-> 0, maxConnsLock |-> 0, acceptor |-> "idle",
             accepts |-> 0, clients |-> << >>]

NoExec == [phase |-> "idle", numCmds |-> 1, stdinFileName |-> FALSE,
           stdoutFileName |-> FALSE, tab0 |-> << >>, tab |-> << >>, file |-> 0,
           cmdIdx |-> 0, prevPipe |-> -1, npipes |-> 0, kids |-> << >>]

\* exec_cmd: one iteration of its loop, pids[i] = spawn_child(...), on the
\* descriptor tables of q; exec_cmd returns after the last one
SpawnStage(q) ==
    LET hasNext == q.cmdIdx < q.numCmds - 1
        piped == IF hasNext /\ q.numCmds > 1
                 THEN fd_pipe(q.tab, q.npipes)
                 ELSE [tab |-> q.tab, rd |-> -1, wr |-> -1]
        child == ChildTable(piped.tab, q.numCmds, q.cmdIdx,
                            q.stdinFileName, q.stdoutFileName,
                            q.prevPipe, piped.rd, piped.wr)
        parent == ParentTable(piped.tab, q.cmdIdx, q.prevPipe, hasNext,
                              piped.wr)
    IN [q EXCEPT
          !.tab = parent,
          !.npipes = IF hasNext THEN @ + 1 ELSE @,
          !.prevPipe = IF hasNext THEN piped.rd ELSE @,
          !.kids = Append(@, [file |-> q.file, stage |-> q.cmdIdx,
                              stdin |-> child[0], stdout |-> child[1],
                              tab |-> child]),
          !.cmdIdx = @ + 1,
          !.phase = IF hasNext THEN "spawning" ELSE "returned"]

\* ---------------------------------------------------------------- count_stats
RECURSIVE StatusFlags(_, _)
\* the loop of count_stats over statuses[0..statusCount-1]
StatusFlags(sts, flags) ==
    IF sts = << >> THEN flags
    ELSE LET status == Head(sts)
             next ==
               IF WIFEXITED(status)
               THEN IF WEXITSTATUS(status) = CHILD_PROCESS_ERROR
                    THEN [flags EXCEPT !.notexec = TRUE]
                    ELSE IF WEXITSTATUS(status) # 0
                         THEN [flags EXCEPT !.fail = TRUE]
                         ELSE flags
               ELSE IF WIFSIGNALED(status)
                    THEN [flags EXCEPT !.signal = TRUE]
                    ELSE flags
         IN StatusFlags(Tail(sts), next)

\* the increment of a bucket without stats[TOTAL_STATS]++
Bump_nototal(st, idx) == [st EXCEPT ![idx] = @ + 1]

Bump(st, idx) == [st EXCEPT ![idx] = @ + 1, ![TOTAL_STATS] = @ + 1]

\* count_stats with "if" in place of "else if": every flagged bucket grows
count_stats_noelse(st, sts) ==
    LET f == StatusFlags(sts, [fail |-> FALSE, signal |-> FALSE, notexec |-> FALSE])
        b(k, on) == IF on THEN 1 ELSE 0
    IN [k \in 0 .. TOTAL_STATS |->
          st[k] + (IF k = NOTEXEC THEN b(k, f.notexec)
                   ELSE IF k = SIGNAL THEN b(k, f.signal)
                   ELSE IF k = FAIL THEN b(k, f.fail)
                   ELSE IF k = SUCCESS
                        THEN b(k, ~(f.notexec \/ f.signal \/ f.fail))
                   ELSE 1)]

\* count_stats without the notexec bucket: exit 99 counts as a plain failure
count_stats_nonotexec(st, sts) ==
    LET f == StatusFlags(sts, [fail |-> FALSE, signal |-> FALSE, notexec |-> FALSE])
    IN IF f.signal THEN Bump(st, SIGNAL)
       ELSE IF f.fail \/ f.notexec THEN Bump(st, FAIL)
       ELSE Bump(st, SUCCESS)

\* count_stats with the signal flag tested before the notexec flag
count_stats_sigfirst(st, sts) ==
    LET f == StatusFlags(sts, [fail |-> FALSE, signal |-> FALSE, notexec |-> FALSE])
    IN IF f.signal THEN Bump(st, SIGNAL)
       ELSE IF f.notexec THEN Bump(st, NOTEXEC)
       ELSE IF f.fail THEN Bump(st, FAIL)
       ELSE Bump(st, SUCCESS)

count_stats(st, sts) ==
    LET f == StatusFlags(sts, [fail |-> FALSE, signal |-> FALSE, notexec |-> FALSE])
    IN IF f.notexec THEN Bump(st, NOTEXEC)
       ELSE IF f.signal THEN Bump(st, SIGNAL)
       ELSE IF f.fail THEN Bump(st, FAIL)
       ELSE Bump(st, SUCCESS)

\* ---------------------------------------------------------------- main, exit
\* the exit commands with the interrupt tested first
ExitDecision_intfirst(st, cfg) ==
    IF cfg.sigInt THEN SIGINT_REC
    ELSE IF st[NOTEXEC] # 0 THEN PROCESS_ERROR
    ELSE EXIT_OK

ExitDecision(st, cfg) ==
    IF st[NOTEXEC] # 0 THEN PROCESS_ERROR
    ELSE IF cfg.sigInt THEN SIGINT_REC
    ELSE EXIT_OK

\* ---------------------------------------------------------------- startup
\* dir: --dir is not given ("default", the directory is "."), names a
\* directory opendir() opens ("ok") or one it cannot open ("bad");
\* cmd: the command is not given ("default", `echo {}`), is one
\* parse_pipeline_string accepts ("ok") or one it returns NULL for ("bad");
\* scans: does scandir() of the directory succeed.
ArgSets ==
    { a \in [dir : {"default", "ok", "bad"}, cmd : {"default", "ok", "bad"},
             scans : BOOLEAN] : a.dir = "bad" => ~a.scans }

ArgsOk == [dir |-> "default", cmd |-> "ok", scans |-> TRUE]

\* validate_args that goes on with the NULL pipeline
ValidateArgs_nocmdcheck ==
    /\ pc = "start"
    /\ IF args.dir = "bad"
       THEN exitCode' = DIR_ERROR /\ pc' = "done"
       ELSE exitCode' = exitCode /\ pc' = "readdir"
    /\ UNCHANGED << env, run, firstStats, config, sigintReceived, stats,
                    i, cmdIdx, pids, procs, statuses, validated >>

\* validate_args: dir_error() and cmd_error() print and exit
ValidateArgs ==
    /\ pc = "start"
    /\ IF args.dir = "bad"
       THEN exitCode' = DIR_ERROR /\ pc' = "done"
       ELSE IF args.cmd = "bad"
            THEN exitCode' = CMD_ERROR /\ pc' = "done"
            ELSE exitCode' = exitCode /\ pc' = "readdir"
    /\ UNCHANGED << env, run, firstStats, config, sigintReceived, stats,
                    i, cmdIdx, pids, procs, statuses, validated >>

\* read_dir: when scandir() returns -1 the loop "while (numFiles--)" frees
\* list[-2], list[-3], ... of an uninitialised list: the process is killed
\* by SIGSEGV (-11) or by abort() in free() (-6)
ReadDir ==
    /\ pc = "readdir"
    /\ IF args.scans
       THEN exitCode' = exitCode /\ pc' = "loop"
       ELSE exitCode' \in {-11, -6} /\ pc' = "done"
    /\ UNCHANGED << env, run, firstStats, config, sigintReceived, stats,
                    i, cmdIdx, pids, procs, statuses, validated >>

\* ------------------------------------------------------------------- Init
\* the coordinator when run_pipeline is entered
InitRun ==
    /\ config \in [parallel : BOOLEAN, sigInt : {FALSE}, statistics : {FALSE}]
    /\ pipeline \in [numCmds : 1 .. MaxStages]
    /\ fileList \in [count : 1 .. (IF config.parallel THEN MaxParFiles
                                                        ELSE MaxFiles)]
    /\ runnable \in [0 .. (pipeline.numCmds - 1) -> BOOLEAN]
    /\ sigintReceived = FALSE
    /\ stats = [k \in 0 .. TOTAL_STATS |-> 0]
    /\ pc = "loop"
    /\ i = 0
    /\ cmdIdx = 0
    /\ pids = [f \in (IF config.parallel THEN 0 .. (fileList.count - 1) ELSE {0})
                 |-> NULL]
    /\ procs = << >>
    /\ statuses = << >>
    /\ exitCode = -1
    /\ validated = [f \in 0 .. (fileList.count - 1) |-> "none"]
    /\ cancelAt = NoCancel
    /\ counted = [f \in DOMAIN validated |-> 0]
    /\ scripted = FALSE
    /\ script = << >>
    /\ run = 1
    /\ firstStats = stats
    /\ hp = NoCall
    /\ vf = NoValidation
    /\ args = ArgsOk
    /\ report = << >>
    /\ srv = NoServer

Init == InitRun /\ px = NoExec

\* slot of pids used for the file at index i
Slot == IF config.parallel THEN i ELSE 0

BetweenFiles == {"chk971", "loop"}

\* history bookkeeping common to every step
TrackHist ==
    /\ cancelAt' =
        IF /\ cancelAt = NoCancel
           /\ ~config.parallel
           /\ sigintReceived'
           /\ pc' \in BetweenFiles
        THEN [stats |-> stats', spawned |-> Len(procs')]
        ELSE cancelAt
    /\ counted' =
        IF run' # run THEN [f \in DOMAIN counted |-> 0]
        ELSE IF stats'[TOTAL_STATS] # stats[TOTAL_STATS]
             THEN [counted EXCEPT ![i] = @ + 1]
             ELSE counted

\* the descriptor tables are not followed
Track == TrackHist /\ UNCHANGED px

\* ---------------------------------------------------------- the coordinator
\* the loop whose reaping pass starts at the last file
LoopHead_lastfirst ==
    /\ pc = "loop"
    /\ IF i < fileList.count
       THEN pc' = "validate" /\ i' = i
       ELSE IF config.parallel
            THEN pc' = "preap" /\ i' = fileList.count - 1
            ELSE pc' = "exit" /\ i' = i
    /\ UNCHANGED << env, run, firstStats, config, sigintReceived, stats,
                    cmdIdx, pids, procs, statuses, exitCode, validated >>

\* run_pipeline: for (int i = 0; i < fileList.count; i++)
LoopHead ==
    /\ pc = "loop"
    /\ IF i < fileList.count
       THEN pc' = "validate" /\ i' = i
       ELSE IF config.parallel
            THEN pc' = "preap" /\ i' = 0
            ELSE pc' = "exit" /\ i' = i
    /\ UNCHANGED << env, run, firstStats, config, sigintReceived, stats,
                    cmdIdx, pids, procs, statuses, exitCode, validated >>

\* the call validate_files(inputFile, outputFile, files[i])
Validate ==
    /\ pc = "validate"
    /\ \E inputFile, outputFile, inOpens, outOpens \in BOOLEAN :
         LET ok == validate_files(inputFile, outputFile, inOpens, outOpens)
         IN /\ scripted => (ok = script[i].valid)
            /\ validated' = [validated EXCEPT ![i] = IF ok THEN "ok" ELSE "bad"]
            /\ pc' = IF ok THEN "chk969" ELSE "chk963"
    /\ UNCHANGED << env, run, firstStats, config, sigintReceived, stats,
                    i, cmdIdx, pids, procs, statuses, exitCode >>

\* the body of the if without "continue": the file goes on to line 969
Chk963_nocontinue ==
    /\ pc = "chk963"
    /\ IF ~sigintReceived
       THEN /\ stats' = Bump(stats, NOTEXEC)
            /\ i' = i
            /\ pc' = "chk969"
       ELSE /\ pc' = "chk969"
            /\ UNCHANGED << stats, i >>
    /\ UNCHANGED << env, run, firstStats, config, sigintReceived,
                    cmdIdx, pids, procs, statuses, exitCode, validated >>

\* the body of the if with "break" in place of "continue"
Chk963_aborts ==
    /\ pc = "chk963"
    /\ IF ~sigintReceived
       THEN /\ stats' = Bump(stats, NOTEXEC)
            /\ i' = i
            /\ pc' = IF config.parallel THEN "preap" ELSE "exit"
       ELSE /\ pc' = "chk969"
            /\ UNCHANGED << stats, i >>
    /\ UNCHANGED << env, run, firstStats, config, sigintReceived,
                    cmdIdx, pids, procs, statuses, exitCode, validated >>

\* "continue" for every failed validation, counted only without the flag
Chk963_skipsuncounted ==
    /\ pc = "chk963"
    /\ stats' = IF ~sigintReceived THEN Bump(stats, NOTEXEC) ELSE stats
    /\ i' = i + 1
    /\ pc' = "loop"
    /\ UNCHANGED << env, run, firstStats, config, sigintReceived,
                    cmdIdx, pids, procs, statuses, exitCode, validated >>

\* line 962 without "&& !sigintReceived"
Chk963_noflagtest ==
    /\ pc = "chk963"
    /\ stats' = Bump(stats, NOTEXEC)
    /\ i' = i + 1
    /\ pc' = "loop"
    /\ UNCHANGED << env, run, firstStats, config, sigintReceived,
                    cmdIdx, pids, procs, statuses, exitCode, validated >>

\* validation failed: "&& !sigintReceived", then the body of the if
Chk963 ==
    /\ pc = "chk963"
    /\ IF ~sigintReceived
       THEN /\ stats' = Bump(stats, NOTEXEC)
            /\ i' = i + 1
            /\ pc' = "loop"
       ELSE /\ pc' = "chk969"
            /\ UNCHANGED << stats, i >>
    /\ UNCHANGED << env, run, firstStats, config, sigintReceived,
                    cmdIdx, pids, procs, statuses, exitCode, validated >>

\* which branch of "if (!parallel && !sigintReceived) ... else if (parallel)"
\* line 969 without the test of the flag
Branch969_nosig(parallel, sig) ==
    IF ~parallel THEN "sequential" ELSE "parallel"

\* line 969 with the test of the flag in front of both branches
Branch969_flagskips(parallel, sig) ==
    IF sig THEN "none"
    ELSE IF parallel THEN "parallel" ELSE "sequential"

Branch969(parallel, sig) ==
    IF ~parallel /\ ~sig THEN "sequential"
    ELSE IF parallel THEN "parallel"
    ELSE "none"

Chk969 ==
    /\ pc = "chk969"
    /\ IF Branch969(config.parallel, sigintReceived) = "none"
       THEN /\ i' = i + 1
            /\ pc' = "loop"
            /\ UNCHANGED << cmdIdx, pids >>
       ELSE \* sequential_process / parallel_process: malloc the pid array
            /\ pids' = [pids EXCEPT ![Slot] = [s \in Stages |-> 0]]
            /\ cmdIdx' = 0
            /\ pc' = "spawn"
            /\ i' = i
    /\ UNCHANGED << env, run, firstStats, config, sigintReceived, stats,
                    procs, statuses, exitCode, validated >>

\* exec_cmd whose loop ends at the first stage that cannot be executed
SpawnChild_stops ==
    /\ pc = "spawn"
    /\ LET pid == Len(procs) + 1
       IN /\ procs' = Append(procs, [file |-> i, stage |-> cmdIdx, st |-> "running",
                                   argv |-> cmd_copy(CmdArray(cmdIdx), FileName(i))])
          /\ pids' = [pids EXCEPT ![Slot][cmdIdx] = pid]
    /\ IF cmdIdx + 1 < pipeline.numCmds /\ runnable[cmdIdx]
       THEN /\ cmdIdx' = cmdIdx + 1
            /\ UNCHANGED << pc, i >>
       ELSE /\ cmdIdx' = 0
            /\ IF config.parallel
               THEN pc' = "loop" /\ i' = i + 1
               ELSE pc' = "reap" /\ i' = i
    /\ UNCHANGED << env, run, firstStats, config, sigintReceived, stats,
                    statuses, exitCode, validated >>

\* parallel_process that reaps like sequential_process
SpawnChild_reapsNow ==
    /\ pc = "spawn"
    /\ LET pid == Len(procs) + 1
       IN /\ procs' = Append(procs, [file |-> i, stage |-> cmdIdx, st |-> "running",
                                   argv |-> cmd_copy(CmdArray(cmdIdx), FileName(i))])
          /\ pids' = [pids EXCEPT ![Slot][cmdIdx] = pid]
    /\ IF cmdIdx + 1 < pipeline.numCmds
       THEN /\ cmdIdx' = cmdIdx + 1
            /\ UNCHANGED << pc, i >>
       ELSE /\ cmdIdx' = 0
            /\ pc' = "reap"
            /\ i' = i
    /\ UNCHANGED << env, run, firstStats, config, sigintReceived, stats,
                    statuses, exitCode, validated >>

\* sequential_process without the call of reap_children
SpawnChild_noreap ==
    /\ pc = "spawn"
    /\ LET pid == Len(procs) + 1
       IN /\ procs' = Append(procs, [file |-> i, stage |-> cmdIdx, st |-> "running",
                                   argv |-> cmd_copy(CmdArray(cmdIdx), FileName(i))])
          /\ pids' = [pids EXCEPT ![Slot][cmdIdx] = pid]
    /\ IF cmdIdx + 1 < pipeline.numCmds
       THEN /\ cmdIdx' = cmdIdx + 1
            /\ UNCHANGED << pc, i >>
       ELSE /\ cmdIdx' = 0
            /\ IF config.parallel
               THEN pc' = "loop" /\ i' = i + 1
               ELSE pc' = "chk971" /\ i' = i
    /\ UNCHANGED << env, run, firstStats, config, sigintReceived, stats,
                    statuses, exitCode, validated >>

\* exec_cmd: one iteration, pids[i] = spawn_child(...)
SpawnChild ==
    /\ pc = "spawn"
    /\ LET pid == Len(procs) + 1
       IN /\ procs' = Append(procs, [file |-> i, stage |-> cmdIdx, st |-> "running",
                                   argv |-> cmd_copy(CmdArray(cmdIdx), FileName(i))])
          /\ pids' = [pids EXCEPT ![Slot][cmdIdx] = pid]
    /\ IF cmdIdx + 1 < pipeline.numCmds
       THEN /\ cmdIdx' = cmdIdx + 1
            /\ UNCHANGED << pc, i >>
       ELSE /\ cmdIdx' = 0
            /\ IF config.parallel
               THEN pc' = "loop" /\ i' = i + 1
               ELSE pc' = "reap" /\ i' = i
    /\ UNCHANGED << env, run, firstStats, config, sigintReceived, stats,
                    statuses, exitCode, validated >>

\* reap_children that waits for any child, waitpid(-1, &status, 0)
Waitpid_any ==
    /\ pc = "reap"
    /\ \E pid \in 1 .. Len(procs) :
          /\ procs[pid].st = "zombie"
          /\ \E status \in ChildStatuses(runnable[procs[pid].stage]) :
               /\ scripted => (status = script[procs[pid].file].sts[procs[pid].stage])
               /\ statuses' = Append(statuses, status)
          /\ procs' = [procs EXCEPT ![pid].st = "reaped"]
    /\ IF cmdIdx + 1 < pipeline.numCmds
       THEN cmdIdx' = cmdIdx + 1 /\ pc' = pc
       ELSE cmdIdx' = 0 /\ pc' = "count"
    /\ UNCHANGED << env, run, firstStats, config, sigintReceived, stats,
                    i, pids, exitCode, validated >>

\* reap_children: one iteration, waitpid(pids[i], &status, 0); fork() is
\* taken to succeed, so that every pids[i] is the pid of a child
Waitpid ==
    /\ pc = "reap"
    /\ LET pid == pids[Slot][cmdIdx]
       IN /\ procs[pid].st = "zombie"
          /\ \E status \in ChildStatuses(runnable[procs[pid].stage]) :
               /\ scripted => (status = script[procs[pid].file].sts[procs[pid].stage])
               /\ statuses' = Append(statuses, status)
          /\ procs' = [procs EXCEPT ![pid].st = "reaped"]
    /\ IF cmdIdx + 1 < pipeline.numCmds
       THEN cmdIdx' = cmdIdx + 1 /\ pc' = pc
       ELSE cmdIdx' = 0 /\ pc' = "count"
    /\ UNCHANGED << env, run, firstStats, config, sigintReceived, stats,
                    i, pids, exitCode, validated >>

\* reap_children: count_stats(stats, statuses, numCmds), then free(pids[..])
CountStats ==
    /\ pc = "count"
    /\ stats' = count_stats(stats, statuses)
    /\ statuses' = << >>
    /\ pids' = [pids EXCEPT ![Slot] = NULL]
    /\ IF config.parallel
       THEN pc' = "preap" /\ i' = i + 1
       ELSE pc' = "chk971" /\ i' = i
    /\ UNCHANGED << env, run, firstStats, config, sigintReceived,
                    cmdIdx, procs, exitCode, validated >>

\* if (sigintReceived && i < fileList.count - 1) { config->sigInt = true; break; }
Chk971 ==
    /\ pc = "chk971"
    /\ IF sigintReceived /\ i < fileList.count - 1
       THEN /\ config' = [config EXCEPT !.sigInt = TRUE]
            /\ pc' = "exit"
            /\ i' = i
       ELSE /\ i' = i + 1
            /\ pc' = "loop"
            /\ UNCHANGED config
    /\ UNCHANGED << env, run, firstStats, sigintReceived, stats,
                    cmdIdx, pids, procs, statuses, exitCode, validated >>

\* the reaping loop with the bound fileList.count - 1
ParReapLoop_short ==
    /\ pc = "preap"
    /\ IF i < fileList.count - 1
       THEN IF pids[i] # NULL
            THEN pc' = "reap" /\ i' = i
            ELSE pc' = pc /\ i' = i + 1
       ELSE pc' = "exit" /\ i' = i
    /\ UNCHANGED << env, run, firstStats, config, sigintReceived, stats,
                    cmdIdx, pids, procs, statuses, exitCode, validated >>

\* the reaping loop that takes a non-NULL entry as already reaped
ParReapLoop_skips ==
    /\ pc = "preap"
    /\ IF i < fileList.count
       THEN pc' = pc /\ i' = i + 1
       ELSE pc' = "exit" /\ i' = i
    /\ UNCHANGED << env, run, firstStats, config, sigintReceived, stats,
                    cmdIdx, pids, procs, statuses, exitCode, validated >>

\* the reaping loop that reaps the files whose validation succeeded
ParReapLoop_validated ==
    /\ pc = "preap"
    /\ IF i < fileList.count
       THEN IF validated[i] = "ok"
            THEN pc' = "reap" /\ i' = i
            ELSE pc' = pc /\ i' = i + 1
       ELSE pc' = "exit" /\ i' = i
    /\ UNCHANGED << env, run, firstStats, config, sigintReceived, stats,
                    cmdIdx, pids, procs, statuses, exitCode, validated >>

\* parallel mode reaping: for (...) if (pids[i] != NULL) reap_children(...)
ParReapLoop ==
    /\ pc = "preap"
    /\ IF i < fileList.count
       THEN IF pids[i] # NULL
            THEN pc' = "reap" /\ i' = i
            ELSE pc' = pc /\ i' = i + 1
       ELSE pc' = "exit" /\ i' = i
    /\ UNCHANGED << env, run, firstStats, config, sigintReceived, stats,
                    cmdIdx, pids, procs, statuses, exitCode, validated >>

\* print_exit: the five lines, in the order they are printed
print_exit(st) ==
    << st[TOTAL_STATS], st[SUCCESS], st[FAIL], st[SIGNAL], st[NOTEXEC] >>

\* main after run_pipeline without the test of config.statistics
Exit_alwaysprints ==
    /\ pc = "exit"
    /\ report' = Append(report, print_exit(stats))
    /\ exitCode' = ExitDecision(stats, config)
    /\ pc' = "done"
    /\ UNCHANGED << inputs, run, firstStats, config, sigintReceived, stats,
                    i, cmdIdx, pids, procs, statuses, validated >>

\* main after run_pipeline: print the statistics, then the exit commands
Exit ==
    /\ pc = "exit"
    /\ report' = IF config.statistics THEN Append(report, print_exit(stats))
                                      ELSE report
    /\ exitCode' = ExitDecision(stats, config)
    /\ pc' = "done"
    /\ UNCHANGED << inputs, run, firstStats, config, sigintReceived, stats,
                    i, cmdIdx, pids, procs, statuses, validated >>

\* --------------------------------------------------------- the environment
\* a handler that flips the flag
handle_sigint_toggle ==
    /\ pc \notin {"start", "readdir", "done"}
    /\ sigintReceived' = ~sigintReceived
    /\ UNCHANGED << env, run, firstStats, config, stats, pc, i, cmdIdx,
                    pids, procs, statuses, exitCode, validated >>

\* handle_sigint: SIGINT is delivered while uqfindexec runs
handle_sigint ==
    /\ pc \notin {"start", "readdir", "done"}
    /\ sigintReceived' = TRUE
    /\ UNCHANGED << env, run, firstStats, config, stats, pc, i, cmdIdx,
                    pids, procs, statuses, exitCode, validated >>

\* a child process ends (exit, _exit after a failed execvp, or a signal)
ChildTerminates ==
    /\ \E pid \in 1 .. Len(procs) :
         /\ procs[pid].st = "running"
         /\ procs' = [procs EXCEPT ![pid].st = "zombie"]
    /\ UNCHANGED << env, run, firstStats, config, sigintReceived, stats,
                    pc, i, cmdIdx, pids, statuses, exitCode, validated >>

Coordinator ==
    \/ LoopHead
    \/ Validate
    \/ Chk963
    \/ Chk969
    \/ SpawnChild
    \/ Waitpid
    \/ CountStats
    \/ Chk971
    \/ ParReapLoop
    \/ Exit

Next ==
    \/ LoopHead /\ Track
    \/ Validate /\ Track
    \/ Chk963 /\ Track
    \/ Chk969 /\ Track
    \/ SpawnChild /\ Track
    \/ Waitpid /\ Track
    \/ CountStats /\ Track
    \/ Chk971 /\ Track
    \/ ParReapLoop /\ Track
    \/ Exit /\ Track
    \/ handle_sigint /\ Track
    \/ ChildTerminates /\ Track

Spec == Init /\ [][Next]_vars

\* The coordinator is never suspended for good, and every child ends.
FairSpec ==
    Spec /\ WF_vars(Coordinator /\ Track) /\ WF_vars(ChildTerminates /\ Track)

\* ------------------------------------- the run with its descriptor tables
\* the coordinator's tables follow its calls of spawn_child: process pid has
\* the table px.kids[pid]
TrackFds ==
    /\ TrackHist
    /\ px' = IF Len(procs') > Len(procs)
             THEN SpawnStage([px EXCEPT !.file = i, !.cmdIdx = cmdIdx])
             ELSE px

\* the coordinator is started with standard input and standard output both
\* open or both closed (pipe() then returns 0 and 1) and the descriptors
\* from 2 to MaxFd open; the pipeline has no redirection
InitEof ==
    /\ InitRun
    /\ fileList.count <= MaxParFiles
    /\ \A c \in Stages : runnable[c]
    /\ \E std \in {{}, {0, 1}} :
         LET fds == std \cup (2 .. MaxFd)
             tab == [d \in FdNums |-> IF d \in fds THEN Std(d) ELSE Closed]
         IN px \in [phase : {"spawning"}, numCmds : {pipeline.numCmds},
                    stdinFileName : {FALSE}, stdoutFileName : {FALSE},
                    tab0 : {tab}, tab : {tab}, file : {0}, cmdIdx : {0},
                    prevPipe : {-1}, npipes : {0}, kids : {<< >>}]

\* who holds the write end of pipe p: the coordinator, or a running process
WriteEndHeld(p) ==
    \/ HeldAt(px.tab, WriteEnd(p)) # {}
    \/ \E q \in 1 .. Len(procs) :
         procs[q].st = "running" /\ HeldAt(px.kids[q].tab, WriteEnd(p)) # {}

\* a child process ends: one that reads from a pipe only when nobody holds
\* the write end of that pipe any more (its input is at end-of-file)
ChildTerminatesEof ==
    /\ \E pid \in 1 .. Len(procs) :
         /\ procs[pid].st = "running"
         /\ px.kids[pid].stdin.kind = "r" =>
              ~WriteEndHeld(px.kids[pid].stdin.id)
         /\ procs' = [procs EXCEPT ![pid].st = "zombie"]
    /\ UNCHANGED << env, run, firstStats, config, sigintReceived, stats,
                    pc, i, cmdIdx, pids, statuses, exitCode, validated >>

NextEof ==
    \/ LoopHead /\ TrackFds
    \/ Validate /\ TrackFds
    \/ Chk963 /\ TrackFds
    \/ Chk969 /\ TrackFds
    \/ SpawnChild /\ TrackFds
    \/ Waitpid /\ TrackFds
    \/ CountStats /\ TrackFds
    \/ Chk971 /\ TrackFds
    \/ ParReapLoop /\ TrackFds
    \/ Exit /\ TrackFds
    \/ handle_sigint /\ TrackFds
    \/ ChildTerminatesEof /\ TrackFds

\* The coordinator is never suspended for good, and a child that can end does.
SpecEof ==
    /\ InitEof /\ [][NextEof]_vars
    /\ WF_vars(Coordinator /\ TrackFds)
    /\ WF_vars(ChildTerminatesEof /\ TrackFds)

\* ------------------------------------------- the same inputs in both modes
\* One file's inputs: validation fails, or the first or the last stage ends
\* with a status of ProgramStatuses and the other stages exit 0.
ScriptKinds(numCmds) ==
    { [valid |-> FALSE, sts |-> [s \in 0 .. (numCmds - 1) |-> W_EXITCODE(0, 0)]] }
    \cup
    { [valid |-> TRUE,
       sts |-> [s \in 0 .. (numCmds - 1) |-> IF s = p THEN st ELSE W_EXITCODE(0, 0)]] :
         p \in {0, numCmds - 1}, st \in ProgramStatuses }

InitModes ==
    /\ config = [parallel |-> FALSE, sigInt |-> FALSE, statistics |-> FALSE]
    /\ pipeline \in [numCmds : 1 .. MaxStages]
    /\ fileList \in [count : 1 .. MaxParFiles]
    /\ runnable = [s \in 0 .. (pipeline.numCmds - 1) |-> TRUE]
    /\ sigintReceived = FALSE
    /\ stats = [k \in 0 .. TOTAL_STATS |-> 0]
    /\ pc = "loop"
    /\ i = 0
    /\ cmdIdx = 0
    /\ pids = [f \in (IF config.parallel THEN 0 .. (fileList.count - 1) ELSE {0})
                 |-> NULL]
    /\ procs = << >>
    /\ statuses = << >>
    /\ exitCode = -1
    /\ validated = [f \in 0 .. (fileList.count - 1) |-> "none"]
    /\ cancelAt = NoCancel
    /\ counted = [f \in DOMAIN validated |-> 0]
    /\ scripted = TRUE
    /\ script \in [0 .. (fileList.count - 1) -> ScriptKinds(pipeline.numCmds)]
    /\ run = 1
    /\ firstStats = stats
    /\ hp = NoCall
    /\ vf = NoValidation
    /\ args = ArgsOk
    /\ report = << >>
    /\ px = NoExec
    /\ srv = NoServer

\* uqfindexec is started again on the same files and pipeline, in the other mode
Rerun ==
    /\ pc = "done"
    /\ run = 1
    /\ run' = 2
    /\ firstStats' = stats
    /\ config' = [parallel |-> ~config.parallel, sigInt |-> FALSE,
                  statistics |-> config.statistics]
    /\ sigintReceived' = FALSE
    /\ stats' = [k \in 0 .. TOTAL_STATS |-> 0]
    /\ pc' = "loop"
    /\ i' = 0
    /\ cmdIdx' = 0
    /\ pids' = [f \in (IF config'.parallel THEN 0 .. (fileList.count - 1) ELSE {0})
                  |-> NULL]
    /\ procs' = << >>
    /\ statuses' = << >>
    /\ exitCode' = -1
    /\ validated' = [f \in 0 .. (fileList.count - 1) |-> "none"]
    /\ report' = << >>
    /\ UNCHANGED inputs

NextModes ==
    \/ LoopHead /\ Track
    \/ Validate /\ Track
    \/ Chk963 /\ Track
    \/ Chk969 /\ Track
    \/ SpawnChild /\ Track
    \/ Waitpid /\ Track
    \/ CountStats /\ Track
    \/ Chk971 /\ Track
    \/ ParReapLoop /\ Track
    \/ Exit /\ Track
    \/ ChildTerminates /\ Track
    \/ Rerun /\ Track
\* ------------------------------------------------- main from its first line
\* the default command `echo {}` has one stage; a run that ends at startup
\* has no pipeline and no file list
InitMain ==
    /\ config \in [parallel : BOOLEAN, sigInt : {FALSE}, statistics : BOOLEAN]
    /\ args \in ArgSets
    /\ pipeline \in [numCmds : IF args.cmd = "ok" THEN 1 .. MaxStages ELSE {1}]
    /\ fileList \in [count : IF args.scans /\ args.cmd # "bad"
                              THEN 1 .. MaxParFiles ELSE {1}]
    /\ runnable = [s \in 0 .. (pipeline.numCmds - 1) |-> TRUE]
    /\ sigintReceived = FALSE
    /\ stats = [k \in 0 .. TOTAL_STATS |-> 0]
    /\ pc = "start"
    /\ i = 0
    /\ cmdIdx = 0
    /\ pids = [f \in (IF config.parallel THEN 0 .. (fileList.count - 1) ELSE {0})
                 |-> NULL]
    /\ procs = << >>
    /\ statuses = << >>
    /\ exitCode = -1
    /\ validated = [f \in 0 .. (fileList.count - 1) |-> "none"]
    /\ cancelAt = NoCancel
    /\ counted = [f \in DOMAIN validated |-> 0]
    /\ scripted = FALSE
    /\ script = << >>
    /\ run = 1
    /\ firstStats = stats
    /\ hp = NoCall
    /\ vf = NoValidation
    /\ report = << >>
    /\ px = NoExec
    /\ srv = NoServer

NextMain ==
    \/ ValidateArgs /\ Track
    \/ ReadDir /\ Track
    \/ Next

SpecMain == InitMain /\ [][NextMain]_vars

\* ------------------------------------ handle_placeholders called on its own
\* uqfindexec itself is not running
Standalone ==
    /\ config = [parallel |-> FALSE, sigInt |-> FALSE, statistics |-> FALSE]
    /\ pipeline = [numCmds |-> 1]
    /\ fileList = [count |-> 1]
    /\ runnable = [s \in {0} |-> TRUE]
    /\ sigintReceived = FALSE
    /\ stats = [k \in 0 .. TOTAL_STATS |-> 0]
    /\ pc = "done"
    /\ i = 0
    /\ cmdIdx = 0
    /\ pids = [f \in {0} |-> NULL]
    /\ procs = << >>
    /\ statuses = << >>
    /\ exitCode = EXIT_OK
    /\ validated = [f \in {0} |-> "none"]
    /\ cancelAt = NoCancel
    /\ counted = [f \in DOMAIN validated |-> 0]
    /\ scripted = FALSE
    /\ script = << >>
    /\ run = 1
    /\ firstStats = stats
    /\ args = ArgsOk
    /\ report = << >>

InitSubst ==
    /\ Standalone
    /\ vf = NoValidation
    /\ px = NoExec
    /\ srv = NoServer
    /\ hp \in [phase : {"call"}, checkStr : Strings(MaxTemplateLen),
               fill : Strings(MaxFillLen), newStr : {<< >>}, size : {0}]

\* char* newStr = handle_placeholders(checkStr, fill), with the size of the
\* block the result is written to (strdup allocates strlen + 1)
HandlePlaceholders ==
    /\ hp.phase = "call"
    /\ hp' = [hp EXCEPT
                !.phase = "ret",
                !.newStr = handle_placeholders(hp.checkStr, hp.fill),
                !.size = IF count_placeholders(hp.checkStr) = 0
                         THEN Len(hp.checkStr) + 1
                         ELSE NewStrSize(hp.checkStr, hp.fill)]
    /\ UNCHANGED << config, pipeline, fileList, runnable, sigintReceived, stats,
                    pc, i, cmdIdx, pids, procs, statuses, exitCode, validated,
                    cancelAt, counted, scripted, script, run, firstStats, vf, args,
                    report, px, srv >>

NextSubst == HandlePlaceholders

SpecSubst == InitSubst /\ [][NextSubst]_vars

\* ----------------------------------------- validate_files called on its own
InitValidate ==
    /\ Standalone
    /\ px = NoExec
    /\ srv = NoServer
    /\ hp = NoCall
    /\ \E fds \in SUBSET (0 .. MaxFd) :
         vf \in [phase : {"call"}, inputFile : BOOLEAN, outputFile : BOOLEAN,
                 inOpens : BOOLEAN, outOpens : BOOLEAN, fds0 : {fds}, fds : {fds},
                 log : {<< >>}, ret : {FALSE}]

\* bool ok = validate_files(inputFile, outputFile, fileName)
ValidateFiles ==
    /\ vf.phase = "call"
    /\ LET r == ValidateRun(vf.fds, vf.inputFile, vf.outputFile,
                            vf.inOpens, vf.outOpens)
       IN vf' = [vf EXCEPT !.phase = "ret", !.ret = r.ret, !.fds = r.fds,
                           !.log = r.log]
    /\ UNCHANGED << config, pipeline, fileList, runnable, sigintReceived, stats,
                    pc, i, cmdIdx, pids, procs, statuses, exitCode, validated,
                    cancelAt, counted, scripted, script, run, firstStats, hp, args,
                    report, px, srv >>

NextValidate == ValidateFiles

SpecValidate == InitValidate /\ [][NextValidate]_vars

\* ----------------------------------------------- exec_cmd called on its own
\* the coordinator starts with any of the descriptors 0 .. MaxFd open, and
\* calls exec_cmd for one file after the other
InitPipes ==
    /\ Standalone
    /\ hp = NoCall
    /\ vf = NoValidation
    /\ srv = NoServer
    /\ \E fds \in SUBSET (0 .. MaxFd) :
         LET tab == [d \in FdNums |-> IF d \in fds THEN Std(d) ELSE Closed]
         IN px \in [phase : {"spawning"}, numCmds : 1 .. MaxStages,
                    stdinFileName : BOOLEAN, stdoutFileName : BOOLEAN,
                    tab0 : {tab}, tab : {tab}, file : {0}, cmdIdx : {0},
                    prevPipe : {-1}, npipes : {0}, kids : {<< >>}]

\* exec_cmd: one iteration of its loop, pids[i] = spawn_child(...); the
\* function returns after the last one
ExecCmdStage ==
    /\ px.phase = "spawning"
    /\ px' = SpawnStage(px)
    /\ UNCHANGED << config, pipeline, fileList, runnable, sigintReceived, stats,
                    pc, i, cmdIdx, pids, procs, statuses, exitCode, validated,
                    cancelAt, counted, scripted, script, run, firstStats, hp, vf, args,
                    report, srv >>

\* run_pipeline: exec_cmd is called for the next file
ExecCmdNextFile ==
    /\ px.phase = "returned"
    /\ px.file + 1 < MaxParFiles
    /\ px' = [px EXCEPT !.phase = "spawning", !.file = @ + 1, !.cmdIdx = 0]
    /\ UNCHANGED << config, pipeline, fileList, runnable, sigintReceived, stats,
                    pc, i, cmdIdx, pids, procs, statuses, exitCode, validated,
                    cancelAt, counted, scripted, script, run, firstStats, hp, vf, args,
                    report, srv >>

NextPipes == ExecCmdStage \/ ExecCmdNextFile

SpecPipes == InitPipes /\ [][NextPipes]_vars



\* ------------------------------------------- uqimageproc: connection limit
\* setup_server_stats(maxConns): sem_init(&maxConnsLock, 0, maxConns) when
\* maxConns > 0; process_connections is at the top of its loop
InitServer ==
    /\ Standalone
    /\ hp = NoCall
    /\ vf = NoValidation
    /\ px = NoExec
    /\ srv \in [maxConns : 0 .. MaxConnsArg, maxConnsLock : 0 .. MaxConnsArg,
                acceptor : {"top"}, accepts : {0}, clients : {<< >>}]
    /\ srv.maxConnsLock = srv.maxConns

ServerIdle ==
    UNCHANGED << config, pipeline, fileList, runnable, sigintReceived, stats,
                 pc, i, cmdIdx, pids, procs, statuses, exitCode, validated,
                 cancelAt, counted, scripted, script, run, firstStats, hp, vf,
                 args, report, px >>

\* process_connections: if (maxConns > 0) sem_wait(&stats->maxConnsLock)
SemWait ==
    /\ srv.acceptor = "top"
    /\ srv.maxConns > 0 => srv.maxConnsLock > 0
    /\ srv' = [srv EXCEPT
                 !.maxConnsLock = IF srv.maxConns > 0 THEN @ - 1 ELSE @,
                 !.acceptor = "accept"]
    /\ ServerIdle

\* accept() that fails without sem_post
AcceptConn_nopost ==
    /\ srv.acceptor = "accept"
    /\ srv.accepts < MaxAccepts
    /\ \E fdOk \in BOOLEAN :
         srv' = [srv EXCEPT
                   !.accepts = @ + 1,
                   !.acceptor = IF fdOk THEN "create" ELSE "top"]
    /\ ServerIdle

\* process_connections: fd = accept(...); if (fd < 0) { sem_post; continue; }
AcceptConn ==
    /\ srv.acceptor = "accept"
    /\ srv.accepts < MaxAccepts
    /\ \E fdOk \in BOOLEAN :
         srv' = [srv EXCEPT
                   !.accepts = @ + 1,
                   !.maxConnsLock = IF ~fdOk /\ srv.maxConns > 0 THEN @ + 1 ELSE @,
                   !.acceptor = IF fdOk THEN "create" ELSE "top"]
    /\ ServerIdle

\* process_connections: pthread_create(&threadID, NULL, client_thread, ...),
\* taken to succeed
CreateThread ==
    /\ srv.acceptor = "create"
    /\ srv' = [srv EXCEPT !.clients = Append(@, "connected"), !.acceptor = "top"]
    /\ ServerIdle

\* client_thread: the client disconnected, change_stats(DISCONNECT), then
\* if (stats->maxConns > 0) sem_post(&maxConnsLock)
ClientRelease ==
    /\ \E t \in DOMAIN srv.clients :
         /\ srv.clients[t] = "connected"
         /\ srv' = [srv EXCEPT
                      !.clients[t] = "released",
                      !.maxConnsLock = IF srv.maxConns > 0 THEN @ + 1 ELSE @]
    /\ ServerIdle

\* client_thread: fclose(stream); free(data); return NULL
ClientReturn ==
    /\ \E t \in DOMAIN srv.clients :
         /\ srv.clients[t] = "released"
         /\ srv' = [srv EXCEPT !.clients[t] = "returned"]
    /\ ServerIdle

NextServer ==
    \/ SemWait
    \/ AcceptConn
    \/ CreateThread
    \/ ClientRelease
    \/ ClientReturn

SpecServer == InitServer /\ [][NextServer]_vars

\* no interrupt: handle_sigint is not among the steps
SpecModes == InitModes /\ [][NextModes]_vars

TypeOK ==
    /\ sigintReceived \in BOOLEAN
    /\ pc \in {"start", "readdir", "loop", "validate", "chk963", "chk969", "spawn", "reap", "count",
               "chk971", "preap", "exit", "done"}
    /\ i \in 0 .. fileList.count
    /\ \A k \in 0 .. TOTAL_STATS : stats[k] \in 0 .. fileList.count
    /\ \A pid \in 1 .. Len(procs) : procs[pid].st \in {"running", "zombie", "reaped"}

\* ========================================================= the claims

\* --- what a wait status says, read off its encoding
NotExecutedStatus(status) == status = W_EXITCODE(CHILD_PROCESS_ERROR, 0)
KilledBySignal(status) == \E sg \in 1 .. 126 : status \in {sg, sg + 128}
ExitedNonzero(status) == \E code \in 1 .. 255 : status = W_EXITCODE(code, 0)

PriorityOutcome(sts) ==
    IF \E j \in DOMAIN sts : NotExecutedStatus(sts[j]) THEN NOTEXEC
    ELSE IF \E j \in DOMAIN sts : KilledBySignal(sts[j]) THEN SIGNAL
    ELSE IF \E j \in DOMAIN sts : ExitedNonzero(sts[j]) THEN FAIL
    ELSE SUCCESS

ProcsOf(f) == { pid \in 1 .. Len(procs) : procs[pid].file = f }
Unreaped == { pid \in 1 .. Len(procs) : procs[pid].st # "reaped" }
Finished == pc = "done"

\* C1: whatever statuses reap_children collected for a file, the step that
\* classifies them adds one to NotExecuted if any stage exited with 99, else
\* to SignalTerminated if any stage was killed by a signal, else to Failure
\* if any stage exited nonzero, else to Success (and one to the total); the
\* outcome depends on which statuses occur, not on the stages they occur at.
C1_ClassificationPriority ==
    [][ (pc = "count" /\ pc' # "count") =>
          stats' = [stats EXCEPT ![PriorityOutcome(statuses)] = @ + 1,
                                 ![TOTAL_STATS] = @ + 1] ]_vars

\* C1 witness: a file was classified NotExecuted, and the next one is about
\* to be classified with a signal death at stage 0 and exit 99 at stage 1.
C1_Witness ==
    /\ pc = "count"
    /\ stats[NOTEXEC] = 1
    /\ statuses = << W_EXITCODE(0, 9), W_EXITCODE(CHILD_PROCESS_ERROR, 0) >>

\* C2: with no interrupt, a sequential run and a parallel run over the same
\* files, the same validation results and the same per-stage statuses end
\* with the same five counters.
C2_ModesAgree ==
    (run = 2 /\ Finished) => stats = firstStats

\* C2 witness: the parallel rerun has finished a two-file script with one
\* failed validation and one Failure.
C2_Witness ==
    /\ run = 2
    /\ Finished
    /\ config.parallel
    /\ stats[NOTEXEC] = 1
    /\ stats[FAIL] = 1

\* C3 (as claimed): a file whose validation failed never has a process, and
\* a step that counts such a file changes only NotExecuted and the total.
C3_FailedValidationNeverRuns ==
    /\ [](\A f \in Files : validated[f] = "bad" => ProcsOf(f) = {})
    /\ [][ (stats' # stats /\ i \in Files /\ validated[i] = "bad") =>
             /\ stats'[SUCCESS] = stats[SUCCESS]
             /\ stats'[FAIL] = stats[FAIL]
             /\ stats'[SIGNAL] = stats[SIGNAL] ]_vars

\* C4 (as claimed): the step taken after a failed validation adds one to
\* NotExecuted and to the total and goes on to the next file.
C4_FailedValidationCounted ==
    [][ (pc = "chk963" /\ pc' # "chk963") =>
          /\ stats' = [stats EXCEPT ![NOTEXEC] = @ + 1, ![TOTAL_STATS] = @ + 1]
          /\ i' = i + 1
          /\ pc' = "loop" ]_vars

\* C5: once a sequential run stands between two files with the flag set, no
\* counter changes and no process is spawned any more; so an interrupt that
\* arrives after the first of three files completed leaves the total at 1.
C5_CancelledRunStops ==
    (~config.parallel /\ cancelAt # NoCancel) =>
        /\ stats = cancelAt.stats
        /\ Len(procs) = cancelAt.spawned

\* C5 witness: three files, the flag was found set after the first one, the
\* run has ended and exactly one file was counted.
C5_Witness ==
    /\ Finished
    /\ ~config.parallel
    /\ fileList.count = 3
    /\ cancelAt # NoCancel
    /\ cancelAt.stats[TOTAL_STATS] = 1
    /\ stats[TOTAL_STATS] = 1

\* C6 (as claimed): a sequential run that left a file unattempted because of
\* the flag, and counted no NotExecuted, ends with the interrupt status.
C6_AbandonMeansInterruptExit ==
    ( /\ Finished
      /\ ~config.parallel
      /\ sigintReceived
      /\ stats[TOTAL_STATS] < fileList.count
      /\ stats[NOTEXEC] = 0 ) => exitCode = SIGINT_REC

\* C7 (as claimed): a parallel run during which the flag was set, and which
\* counted no NotExecuted, does not end with normal completion.
C7_ParallelInterruptSurfaces ==
    ( /\ Finished
      /\ config.parallel
      /\ sigintReceived
      /\ stats[NOTEXEC] = 0 ) => exitCode # EXIT_OK

\* C8: the exit status is PROCESS_ERROR iff NotExecuted is nonzero (also when
\* the run was recorded as interrupted), SIGINT_REC iff NotExecuted is zero
\* and the run was recorded as interrupted, and 0 otherwise.
C8_ExitDisposition ==
    Finished =>
        /\ exitCode \in {EXIT_OK, PROCESS_ERROR, SIGINT_REC}
        /\ (exitCode = PROCESS_ERROR) <=> (stats[NOTEXEC] # 0)
        /\ (exitCode = SIGINT_REC) <=> (stats[NOTEXEC] = 0 /\ config.sigInt)
        /\ (exitCode = EXIT_OK) <=> (stats[NOTEXEC] = 0 /\ ~config.sigInt)

\* C8 witness: a run recorded as interrupted that also counted a NotExecuted
\* file ends with PROCESS_ERROR.
C8_Witness ==
    /\ Finished
    /\ config.sigInt
    /\ stats[NOTEXEC] # 0
    /\ exitCode = PROCESS_ERROR

\* C9: when the coordinator leaves run_pipeline every spawned process has
\* been reaped, in both modes and wherever the interrupt arrived; the run
\* does get there; and a process stops running only by its own termination,
\* never in a step of the coordinator or of the signal handler.
C9_NoProcessLeak ==
    /\ [](pc \in {"exit", "done"} => Unreaped = {})
    /\ <>Finished
    /\ [][ \A pid \in 1 .. Len(procs) :
             (procs[pid].st = "running" /\ procs'[pid].st # "running") =>
                 (pc' = pc /\ sigintReceived' = sigintReceived) ]_vars

\* C9 witness: a parallel run during which the flag was set has ended with
\* all of its processes reaped.
C9_Witness ==
    /\ Finished
    /\ config.parallel
    /\ sigintReceived
    /\ Len(procs) = fileList.count * pipeline.numCmds
    /\ Unreaped = {}

\* C10: a file has no process or, once exec_cmd has returned for it, exactly
\* numCmds of them, one per stage and created in stage order, whether or not
\* an earlier stage can be executed; reap_children waits for exactly these
\* processes, in stage order, and at the end of the run all of them have
\* been reaped.
C10_StagesSpawnedAndReaped ==
    \A f \in Files :
        LET P == ProcsOf(f) IN
        /\ \A p, q \in P : (p < q) <=> (procs[p].stage < procs[q].stage)
        /\ { procs[p].stage : p \in P } = 0 .. (Cardinality(P) - 1)
        /\ (P # {} /\ ~(pc = "spawn" /\ i = f)) => Cardinality(P) = pipeline.numCmds
        /\ \A p, q \in P : (p < q /\ procs[q].st = "reaped") => procs[p].st = "reaped"
        /\ (pc = "reap" /\ i = f) =>
               \A s \in Stages : pids[Slot][s] \in P /\ procs[pids[Slot][s]].stage = s
        /\ Finished => P \cap Unreaped = {}

\* C10 witness: a two-stage pipeline whose first program cannot be executed
\* has had both stages spawned and reaped.
C10_Witness ==
    /\ Finished
    /\ pipeline.numCmds = 2
    /\ ~runnable[0]
    /\ Cardinality(ProcsOf(0)) = 2
    /\ Unreaped = {}

Reaped == { pid \in 1 .. Len(procs) : procs[pid].st = "reaped" }
InReapingPass == pc \in {"preap", "reap", "count", "exit", "done"}

\* C11: a step that reaps a process reaps the one the coordinator waits
\* for, pids[cmdIdx] of the current file, which has terminated; the earlier
\* stages of the file are reaped already and the later ones are not, and no
\* other process changes.  While the awaited process still runs the
\* coordinator stays in waitpid, whichever other children have terminated.
C11_ReapInStageOrder ==
    [][ /\ \A pid \in 1 .. Len(procs) :
             (procs[pid].st # "reaped" /\ procs'[pid].st = "reaped") =>
                 /\ pc = "reap"
                 /\ pid = pids[Slot][cmdIdx]
                 /\ procs[pid].file = i
                 /\ procs[pid].stage = cmdIdx
                 /\ procs[pid].st = "zombie"
                 /\ \A q \in ProcsOf(i) :
                      /\ procs[q].stage < cmdIdx => procs[q].st = "reaped"
                      /\ procs[q].stage > cmdIdx => procs[q].st # "reaped"
                 /\ \A q \in 1 .. Len(procs) : q # pid => procs'[q] = procs[q]
        /\ (pc = "reap" /\ procs[pids[Slot][cmdIdx]].st = "running") =>
                 (pc' = pc /\ cmdIdx' = cmdIdx /\ statuses' = statuses /\ i' = i)
      ]_vars

\* C11 witness: the coordinator waits for stage 0, which still runs, while
\* stage 1 of the same file has terminated already.
C11_Witness ==
    /\ pc = "reap"
    /\ cmdIdx = 0
    /\ pipeline.numCmds = 2
    /\ procs[pids[Slot][0]].st = "running"
    /\ procs[pids[Slot][1]].st = "zombie"

\* C12: in parallel mode, once the coordinator reaps (a process is reaped,
\* or it stands in reap_children), the spawning loop is over: every file was
\* validated and has either no process or all numCmds of them.
C12_ParallelReapsAfterSpawning ==
    (config.parallel /\ (Reaped # {} \/ pc \in {"reap", "count"})) =>
        /\ InReapingPass
        /\ \A f \in Files :
             /\ validated[f] # "none"
             /\ Cardinality(ProcsOf(f)) \in {0, pipeline.numCmds}

\* C12 witness: two files were spawned in parallel mode and exactly one
\* process has been reaped.
C12_Witness ==
    /\ config.parallel
    /\ fileList.count = 2
    /\ Len(procs) = 2 * pipeline.numCmds
    /\ Cardinality(Reaped) = 1

\* C13: in parallel mode a process of a file is reaped only when the
\* reaping pass has reached that file, and then every process of every
\* earlier file has been reaped and the pass has moved beyond those files.
C13_ParallelReapsInFileOrder ==
    config.parallel =>
        \A q \in Reaped :
            /\ InReapingPass
            /\ pc \in {"preap", "reap", "count"} => procs[q].file <= i
            /\ \A p \in 1 .. Len(procs) :
                 procs[p].file < procs[q].file => p \in Reaped

\* C13 witness: every process of file 1 has terminated, and the coordinator
\* waits for a process of file 0 that still runs.
C13_Witness ==
    /\ config.parallel
    /\ pc = "reap"
    /\ i = 0
    /\ procs[pids[0][cmdIdx]].st = "running"
    /\ ProcsOf(1) # {}
    /\ \A p \in ProcsOf(1) : procs[p].st = "zombie"

\* C14: in sequential mode the processes not yet reaped number at most
\* numCmds and all belong to the file being processed, which is inside
\* sequential_process; no process of a later file exists.
C14_SequentialOneFileAtATime ==
    ~config.parallel =>
        /\ Cardinality(Unreaped) <= pipeline.numCmds
        /\ \A pid \in Unreaped : procs[pid].file = i /\ pc \in {"spawn", "reap"}
        /\ \A pid \in 1 .. Len(procs) : procs[pid].file <= i

\* C14 witness: the second file of a sequential run has both of its stages
\* spawned and unreaped, all processes of the first file being reaped.
C14_Witness ==
    /\ ~config.parallel
    /\ i = 1
    /\ pipeline.numCmds = 2
    /\ Cardinality(Unreaped) = 2
    /\ Cardinality(Reaped) = 2

\* the scenario of C15: one file, two stages, execvp() fails for stage 0
\* only, the redirections (none) validated, no interrupt so far
FalseProgScenario ==
    /\ fileList.count = 1
    /\ pipeline.numCmds = 2
    /\ ~runnable[0]
    /\ runnable[1]
    /\ validated[0] = "ok"
    /\ ~sigintReceived

\* C15: in the scenario `falseprog {} | echo {}` on one file, stage 1 is
\* spawned after stage 0 although stage 0 cannot execute; the status the
\* coordinator reaps for stage 0 is exit 99; NotExecuted is counted only
\* when both processes have been reaped; and the finished run has
\* NotExecuted = 1, total = 1, the other buckets 0, and exit PROCESS_ERROR.
C15_FalseProgScenario ==
    FalseProgScenario =>
        /\ pc \in {"reap", "count"} =>
             /\ Len(procs) = 2
             /\ procs[1].stage = 0 /\ procs[2].stage = 1
        /\ (pc = "count") =>
             /\ WIFEXITED(statuses[1])
             /\ WEXITSTATUS(statuses[1]) = CHILD_PROCESS_ERROR
        /\ stats[NOTEXEC] > 0 => (Len(procs) = 2 /\ Unreaped = {})
        /\ Finished =>
             /\ stats = [k \in 0 .. TOTAL_STATS |->
                           IF k \in {NOTEXEC, TOTAL_STATS} THEN 1 ELSE 0]
             /\ exitCode = PROCESS_ERROR
             /\ Len(procs) = 2
             /\ Unreaped = {}

\* C15 witness: a run of the scenario has finished with stage 1 reaped.
C15_Witness ==
    /\ FalseProgScenario
    /\ Finished
    /\ Len(procs) = 2
    /\ procs[2].st = "reaped"

\* the file being classified had its redirections validated and every one
\* of its stage programs was started by execvp()
AllStagesStarted ==
    /\ validated[i] = "ok"
    /\ \A c \in Stages : runnable[c]

ExitedWith99(sts) ==
    \E j \in DOMAIN sts :
        WIFEXITED(sts[j]) /\ WEXITSTATUS(sts[j]) = CHILD_PROCESS_ERROR

\* the classification the claim gives a file whose programs all started
StartedOutcome(sts) ==
    IF \E j \in DOMAIN sts : KilledBySignal(sts[j]) THEN SIGNAL
    ELSE IF \E j \in DOMAIN sts : ExitedNonzero(sts[j]) THEN FAIL
    ELSE SUCCESS

\* C16 as stated: a file whose redirection validated and whose programs all
\* started is never classified NotExecuted, whatever codes they exit with;
\* it is classified SignalTerminated if a stage was killed by a signal, else
\* Failure if a stage exited nonzero.
C16_StartedNeverNotExecuted ==
    [][ (pc = "count" /\ pc' # "count" /\ AllStagesStarted) =>
          /\ stats'[NOTEXEC] = stats[NOTEXEC]
          /\ stats' = Bump(stats, StartedOutcome(statuses)) ]_vars

\* C16 amended: a file whose redirection validated and whose programs all
\* started is classified NotExecuted exactly when one of its programs itself
\* exits with code 99; when none does, it is classified SignalTerminated if a
\* stage was killed by a signal, else Failure if a stage exited nonzero, else
\* Success.
C16_StartedNotExecutedOnlyOn99 ==
    [][ (pc = "count" /\ pc' # "count" /\ AllStagesStarted) =>
          /\ (stats'[NOTEXEC] = stats[NOTEXEC] + 1) <=> ExitedWith99(statuses)
          /\ (stats'[NOTEXEC] = stats[NOTEXEC]) <=> ~ExitedWith99(statuses)
          /\ ~ExitedWith99(statuses) =>
                stats' = Bump(stats, StartedOutcome(statuses)) ]_vars

\* C16 witness: a file whose two programs both started is about to be
\* classified, one program having exited with code 99 and the other with 1,
\* after an earlier file was classified Failure.
C16_Witness ==
    /\ pc = "count"
    /\ AllStagesStarted
    /\ stats[FAIL] = 1
    /\ statuses = << W_EXITCODE(1, 0), W_EXITCODE(CHILD_PROCESS_ERROR, 0) >>

\* `echo {}` over two files, every open() succeeding and every program
\* exiting 0
EchoScenario ==
    /\ scripted
    /\ fileList.count = 2
    /\ pipeline.numCmds = 1
    /\ \A f \in Files : script[f].valid /\ script[f].sts[0] = W_EXITCODE(0, 0)

\* C17: `echo {}` over [a.txt, b.txt] with no interrupt, run sequentially
\* and then in parallel: each finished run has spawned exactly two
\* processes, one per file, whose arguments are echo and the name of its own
\* file, and its tally is success 2, total 2, the other buckets 0.
C17_EchoScenario ==
    (EchoScenario /\ Finished) =>
        /\ Len(procs) = 2
        /\ \A f \in Files :
             /\ Cardinality(ProcsOf(f)) = 1
             /\ \A pid \in ProcsOf(f) :
                  /\ procs[pid].argv = << << "e", "c", "h", "o" >>, FileName(f) >>
                  /\ procs[pid].st = "reaped"
        /\ FileName(0) = << "a", ".", "t", "x", "t" >>
        /\ FileName(1) = << "b", ".", "t", "x", "t" >>
        /\ stats = [k \in 0 .. TOTAL_STATS |->
                      IF k \in {SUCCESS, TOTAL_STATS} THEN 2 ELSE 0]

\* C17 witness: the parallel rerun of the scenario has finished after the
\* sequential run ended with success 2.
C17_Witness ==
    /\ EchoScenario
    /\ Finished
    /\ run = 2
    /\ config.parallel
    /\ firstStats[SUCCESS] = 2
    /\ Len(procs) = 2

\* --- the reference substitution, one character at a time
RECURSIVE RefCount(_)
RefCount(T) ==
    IF Len(T) < 2 THEN 0
    ELSE IF T[1] = "{" /\ T[2] = "}" THEN 1 + RefCount(SubSeq(T, 3, Len(T)))
    ELSE RefCount(Tail(T))

RECURSIVE RefSubst(_, _)
RefSubst(T, F) ==
    IF Len(T) < 2 THEN T
    ELSE IF T[1] = "{" /\ T[2] = "}" THEN F \o RefSubst(SubSeq(T, 3, Len(T)), F)
    ELSE << T[1] >> \o RefSubst(Tail(T), F)

RECURSIVE RefOrigin(_, _, _)
\* where each character of the result comes from: <<"F", k>> for the k-th
\* copy of F, <<"T", k>> for the template text after k markers
RefOrigin(T, F, k) ==
    IF Len(T) < 2 THEN [c \in 1 .. Len(T) |-> << "T", k >>]
    ELSE IF T[1] = "{" /\ T[2] = "}"
         THEN [c \in 1 .. Len(F) |-> << "F", k + 1 >>]
              \o RefOrigin(SubSeq(T, 3, Len(T)), F, k + 1)
    ELSE << << "T", k >> >> \o RefOrigin(Tail(T), F, k)

MarkerAt(str) == { p \in 1 .. (Len(str) - 1) : str[p] = "{" /\ str[p + 1] = "}" }

ResultLengthRight ==
    /\ Len(hp.newStr) =
         Len(hp.checkStr) - 2 * RefCount(hp.checkStr)
           + RefCount(hp.checkStr) * Len(hp.fill)
    /\ Len(hp.newStr) + 1 = hp.size

\* C18 as stated: the result has length len(T) - 2n + n*len(F), and every
\* occurrence of the marker in the result lies inside one copy of F.
C18_MarkersOnlyInsideFill ==
    hp.phase = "ret" =>
        /\ ResultLengthRight
        /\ LET origin == RefOrigin(hp.checkStr, hp.fill, 0)
           IN \A p \in MarkerAt(hp.newStr) :
                origin[p][1] = "F" /\ origin[p + 1] = origin[p]

\* C18 amended: the result has length len(T) - 2n + n*len(F) and fills the
\* block allocated for it exactly; the result is not scanned again, and no
\* occurrence of the marker in it consists of two characters of the same
\* stretch of template text: each occurrence lies inside a copy of F or is
\* formed where a copy of F (possibly empty) meets the text around it.
C18_NoMarkerLeftFromTemplate ==
    hp.phase = "ret" =>
        /\ ResultLengthRight
        /\ LET origin == RefOrigin(hp.checkStr, hp.fill, 0)
           IN /\ Len(origin) = Len(hp.newStr)
              /\ \A p \in MarkerAt(hp.newStr) :
                   ~(origin[p][1] = "T" /\ origin[p + 1] = origin[p])

\* C18 witness: `a{}` filled with `{}` gives `a{}`, whose marker is the
\* copy of the fill string.
C18_Witness ==
    /\ hp.phase = "ret"
    /\ hp.checkStr = << "a", "{", "}" >>
    /\ hp.fill = << "{", "}" >>
    /\ hp.newStr = << "a", "{", "}" >>

\* C19: the result of handle_placeholders equals the reference operator
\* (scan left to right, replace each non-overlapping `{}` by the fill
\* string, copy everything else), and equals the template when the template
\* has no marker.
C19_EqualsReference ==
    hp.phase = "ret" =>
        /\ hp.newStr = RefSubst(hp.checkStr, hp.fill)
        /\ count_placeholders(hp.checkStr) = RefCount(hp.checkStr)
        /\ MarkerAt(hp.checkStr) = {} => hp.newStr = hp.checkStr

\* C19 witness: `{{}}` filled with `a` has given `{a}`.
C19_Witness ==
    /\ hp.phase = "ret"
    /\ hp.checkStr = << "{", "{", "}", "}" >>
    /\ hp.fill = << "a" >>
    /\ hp.newStr = << "{", "a", "}" >>

OpensOf(log, flags) ==
    { a \in DOMAIN log : log[a].call = "open" /\ log[a].arg = flags }

\* C20: validate_files returns true exactly when every given redirection
\* could be opened; the input path is opened before the output path; when
\* the input path fails the output path is not opened (so neither created
\* nor truncated); every descriptor opened is closed afterwards, and the
\* descriptors open on return are those open at the call.
C20_ValidateFiles ==
    vf.phase = "ret" =>
        /\ vf.ret <=> ( /\ vf.inputFile => vf.inOpens
                        /\ vf.outputFile => vf.outOpens )
        /\ Cardinality(OpensOf(vf.log, "O_RDONLY")) = (IF vf.inputFile THEN 1 ELSE 0)
        /\ \A a \in OpensOf(vf.log, "O_RDONLY") :
             \A b \in OpensOf(vf.log, "O_WRONLY|O_CREAT|O_TRUNC") : a < b
        /\ (vf.inputFile /\ ~vf.inOpens) =>
             OpensOf(vf.log, "O_WRONLY|O_CREAT|O_TRUNC") = {}
        /\ \A a \in DOMAIN vf.log :
             (vf.log[a].call = "open" /\ vf.log[a].file >= 0) =>
                 /\ a < Len(vf.log)
                 /\ vf.log[a + 1] = [call |-> "close", arg |-> "",
                                     file |-> vf.log[a].file]
        /\ vf.fds = vf.fds0

\* C20 witness: both redirections were given and both opened; the two
\* opens and the two closes are in the log.
C20_Witness ==
    /\ vf.phase = "ret"
    /\ vf.inputFile /\ vf.outputFile
    /\ vf.ret
    /\ Len(vf.log) = 4
    /\ vf.fds0 = {0, 1, 2}

\* C21: in a finished run without an interrupt every file was validated,
\* every file that validated had all its stages spawned and reaped (also
\* after a file whose validation failed or whose program could not be
\* executed), and when NotExecuted is 0 the exit status is 0 whatever the
\* Failure and SignalTerminated counts.
C21_DiagnosticsAreAdvisory ==
    (Finished /\ ~sigintReceived) =>
        /\ \A f \in Files :
             /\ validated[f] # "none"
             /\ validated[f] = "ok" =>
                  /\ Cardinality(ProcsOf(f)) = pipeline.numCmds
                  /\ ProcsOf(f) \cap Unreaped = {}
             /\ validated[f] = "bad" => ProcsOf(f) = {}
        /\ stats[NOTEXEC] = 0 => exitCode = EXIT_OK

\* C21 witness: the first file failed validation, the second could not
\* execute its first stage, and the third was still run to the end.
C21_Witness ==
    /\ Finished
    /\ ~sigintReceived
    /\ fileList.count = 3
    /\ validated[0] = "bad"
    /\ validated[1] = "ok"
    /\ ~runnable[0]
    /\ ProcsOf(2) # {}
    /\ stats[NOTEXEC] = 3

\* C27: the step that classifies one file's statuses adds exactly one to
\* the total and exactly one to exactly one of the four buckets, and leaves
\* the other three buckets as they were.
C27_ClassifyBumpsOneBucket ==
    [][ (pc = "count" /\ pc' # "count") =>
          /\ stats'[TOTAL_STATS] = stats[TOTAL_STATS] + 1
          /\ \E k \in {SUCCESS, FAIL, SIGNAL, NOTEXEC} :
               /\ stats'[k] = stats[k] + 1
               /\ \A other \in {SUCCESS, FAIL, SIGNAL, NOTEXEC} \ {k} :
                    stats'[other] = stats[other] ]_vars

\* C27 witness: a file is about to be classified whose stages ended with a
\* nonzero exit and with a signal, two buckets being nonzero already.
C27_Witness ==
    /\ pc = "count"
    /\ statuses = << W_EXITCODE(1, 0), W_EXITCODE(0, 9) >>
    /\ stats[SUCCESS] = 1
    /\ stats[NOTEXEC] = 1

\* what the program itself holds, without the history variables
ProgramState ==
    << config, stats, pc, i, cmdIdx, pids, procs, statuses, exitCode >>

\* C28: the flag starts false; a step that changes it sets it to true and
\* changes nothing else of the program (it is the handler's step, not a
\* step of the coordinator); and once true it stays true.
C28_FlagMonotone ==
    /\ ~sigintReceived
    /\ [][ /\ sigintReceived => sigintReceived'
           /\ (sigintReceived' # sigintReceived) =>
                 (sigintReceived' /\ ProgramState' = ProgramState) ]_vars

\* C28 witness: the flag was set before the run ended, and the run has ended
\* after spawning processes.
C28_Witness ==
    /\ sigintReceived
    /\ Finished
    /\ Len(procs) > 0
    /\ stats[TOTAL_STATS] > 0

\* C29: at every step of the run the total equals the sum of the four
\* buckets, whether a file was counted at line 964-965 or by count_stats, in
\* both modes and for every timing of the interrupt.
C29_TotalIsSum ==
    stats[TOTAL_STATS] =
        stats[SUCCESS] + stats[FAIL] + stats[SIGNAL] + stats[NOTEXEC]

\* C29 witness: an interrupted run has counted one file on the validation
\* path and one by count_stats.
C29_Witness ==
    /\ sigintReceived
    /\ stats[FAIL] = 1
    /\ stats[NOTEXEC] = 1
    /\ \E f \in Files : validated[f] = "bad" /\ ProcsOf(f) = {}

\* C30: the total never exceeds the number of files, and a run that ends
\* without an interrupt has counted every file: the total equals the number
\* of files, in both modes.
C30_EveryFileCountedOnce ==
    /\ stats[TOTAL_STATS] <= fileList.count
    /\ (Finished /\ ~sigintReceived) => stats[TOTAL_STATS] = fileList.count

\* C30 witness: a parallel run of two files has ended without an interrupt,
\* one file counted on the validation path, one by count_stats.
C30_Witness ==
    /\ Finished
    /\ ~sigintReceived
    /\ config.parallel
    /\ fileList.count = 2
    /\ validated[0] = "bad"
    /\ stats[TOTAL_STATS] = 2

\* C24: once a sequential run has stood between two files with the flag
\* set, no remaining file is attempted: none gets a failed open of a
\* redirection target (and with it the diagnostic of try_open_file).
C24_AbandonedFilesUntouched ==
    [][ (~config.parallel /\ cancelAt # NoCancel) =>
          \A f \in Files : validated'[f] = "bad" => validated[f] = "bad" ]_vars

\* C22: print_exit writes at most once in a run, only with the statistics
\* flag set, and only in the step that ends the run: by then every file was
\* attempted or the run was interrupted, every spawned process is reaped,
\* and the five values written are the final tally.
C22_ReportOnceAtTheEnd ==
    /\ Len(report) <= 1
    /\ report # << >> =>
         /\ config.statistics
         /\ Finished
         /\ Unreaped = {}
         /\ \A f \in Files : validated[f] # "none" \/ sigintReceived
         /\ report[1] = << stats[TOTAL_STATS], stats[SUCCESS], stats[FAIL],
                           stats[SIGNAL], stats[NOTEXEC] >>
    /\ ~Finished => report = << >>

\* C22 witness: an interrupted sequential run that abandoned a file has
\* reported a tally of one file.
C22_Witness ==
    /\ Len(report) = 1
    /\ config.sigInt
    /\ report[1][1] = 1
    /\ \E f \in Files : validated[f] = "none"

ConfigError == args.dir = "bad" \/ args.cmd = "bad" \/ ~args.scans

\* C23: when the directory cannot be opened or scanned, or the pipeline
\* specification is invalid, the run ends at startup: no file is validated
\* (no redirection target opened), no process is spawned, every counter
\* stays 0 and nothing is reported, also with the statistics flag set; the
\* exit status is DIR_ERROR for a directory opendir() refuses, else
\* CMD_ERROR for an invalid pipeline.
C23_ConfigErrorEndsRun ==
    ConfigError =>
        /\ pc \in {"start", "readdir", "done"}
        /\ \A f \in Files : validated[f] = "none"
        /\ procs = << >>
        /\ \A k \in 0 .. TOTAL_STATS : stats[k] = 0
        /\ report = << >>
        /\ Finished =>
             exitCode = IF args.dir = "bad" THEN DIR_ERROR
                        ELSE IF args.cmd = "bad" THEN CMD_ERROR
                        ELSE exitCode
        /\ Finished => exitCode \notin {EXIT_OK, PROCESS_ERROR, SIGINT_REC}

\* C23 witness: a run with the statistics flag and an invalid pipeline on a
\* readable directory has ended with CMD_ERROR.
C23_Witness ==
    /\ Finished
    /\ config.statistics
    /\ args.dir = "ok"
    /\ args.cmd = "bad"
    /\ exitCode = CMD_ERROR

\* the pipe ends a descriptor table holds
PipeEndsHeld(tab) ==
    { tab[d] : d \in { e \in DOMAIN tab : tab[e].kind \in {"r", "w"} } }

\* C25: exec_cmd creates numCmds - 1 pipes per file (none for one stage);
\* between two stages the coordinator holds exactly the read end of the
\* pipe created last (the write end of that pipe and the read end of the
\* one before are closed); when exec_cmd has returned it holds no pipe end
\* and its descriptor table is the one it started with, for every file.
C25_PipeDiscipline ==
    px.phase # "idle" =>
        /\ px.npipes = px.file * (px.numCmds - 1)
                         + (IF px.cmdIdx < px.numCmds THEN px.cmdIdx
                                                      ELSE px.numCmds - 1)
        /\ PipeEndsHeld(px.tab) =
             IF px.phase = "spawning" /\ px.cmdIdx > 0
             THEN { ReadEnd(px.npipes - 1) }
             ELSE {}
        /\ (px.phase = "spawning" /\ px.cmdIdx > 0) =>
             px.tab[px.prevPipe] = ReadEnd(px.npipes - 1)
        /\ (px.phase = "returned" \/ px.cmdIdx = 0) => px.tab = px.tab0

\* C25 witness: exec_cmd has returned for the second file of a two-stage
\* pipeline, two pipes were created, the coordinator started with 0, 1, 2.
C25_Witness ==
    /\ px.phase = "returned"
    /\ px.file = 1
    /\ px.numCmds = 2
    /\ px.npipes = 2
    /\ px.tab0[0] = Std(0) /\ px.tab0[1] = Std(1) /\ px.tab0[2] = Std(2)
    /\ px.tab = px.tab0

\* the wiring of the stage processes started so far
StreamWiring ==
    \A n \in DOMAIN px.kids :
        LET kid == px.kids[n]
            first == kid.file * (px.numCmds - 1)
        IN /\ kid.stdin =
                IF kid.stage = 0 /\ px.stdinFileName THEN InFile
                ELSE IF kid.stage > 0 THEN ReadEnd(first + kid.stage - 1)
                ELSE px.tab0[0]
           /\ kid.stdout =
                IF kid.stage = px.numCmds - 1 /\ px.stdoutFileName THEN OutFile
                ELSE IF kid.stage < px.numCmds - 1 THEN WriteEnd(first + kid.stage)
                ELSE px.tab0[1]

\* the wiring is right whenever the coordinator was started with the
\* descriptors 0 and 1 open
WiringWithStdOpen ==
    (px.phase # "idle" /\ px.tab0[0] # Closed /\ px.tab0[1] # Closed)
        => StreamWiring

\* C26: every stage process has as standard input the input file if it is
\* stage 0 and an input redirection is given, the read end of the pipe from
\* the stage before if it is a later stage, and what the coordinator has at
\* descriptor 0 otherwise; and as standard output the output file if it is
\* the last stage and an output redirection is given, the write end of the
\* pipe to the next stage if it is an earlier stage, and what the
\* coordinator has at descriptor 1 otherwise.
C26_StreamWiring == px.phase # "idle" => StreamWiring

\* run_pipeline has returned (main is at its exit commands or has left)
PipelineReturned == pc = "exit" \/ (pc = "done" /\ ~ConfigError /\ validated[0] # "none")

\* C31: when run_pipeline has returned in parallel mode, the total equals
\* the number of files, whether and whenever SIGINT was delivered.
C31_ParallelCountsEveryFile ==
    (config.parallel /\ PipelineReturned) => stats[TOTAL_STATS] = fileList.count

\* C31 witness: a parallel run of two files has ended, SIGINT arrived before
\* the first file was validated, one validation failed, and the total is 2.
C31_Witness ==
    /\ config.parallel
    /\ Finished
    /\ fileList.count = 2
    /\ cancelAt = NoCancel
    /\ sigintReceived
    /\ validated[0] = "bad"
    /\ validated[1] = "ok"
    /\ Len(procs) = 2 * pipeline.numCmds
    /\ stats[TOTAL_STATS] = 2

\* a pipeline was spawned for the file, or the file was counted
Spawned(f) == ProcsOf(f) # {}
Terminal(f) == Spawned(f) \/ counted[f] > 0

\* C32: in sequential mode the files that were spawned or counted form a
\* prefix of the file list: a file that is spawned or counted comes after
\* no file that is neither.
C32_SequentialPrefix ==
    ~config.parallel =>
        \A f, g \in Files : (f < g /\ Terminal(g)) => Terminal(f)

\* C32 witness: a sequential run of three files has ended; the first file
\* was counted on the validation path, the flag was found set before the
\* second, and the second and third were validated but neither spawned nor
\* counted.
C32_Witness ==
    /\ ~config.parallel
    /\ Finished
    /\ fileList.count = 3
    /\ validated[0] = "bad" /\ counted[0] = 1 /\ ~Spawned(0)
    /\ validated[1] = "ok" /\ ~Terminal(1)
    /\ validated[2] = "bad" /\ ~Terminal(2)

\* a sequential run is in the iteration of its last file, or beyond it, and
\* SIGINT has not been delivered so far
AtLastFileUninterrupted ==
    /\ ~config.parallel
    /\ ~sigintReceived
    /\ pc \notin {"start", "readdir", "done"}
    /\ \/ i >= fileList.count
       \/ i = fileList.count - 1 /\ pc # "loop"

\* no file was left out, and the exit status is the one of a run that was
\* not interrupted
CompletedEveryFile ==
    /\ \A f \in Files : Terminal(f)
    /\ exitCode = IF stats[NOTEXEC] > 0 THEN PROCESS_ERROR ELSE EXIT_OK

\* the exit status is not the one of an interrupted run
NoInterruptCompletion ==
    [](AtLastFileUninterrupted =>
         [](Finished => (~config.sigInt /\ exitCode # SIGINT_REC)))

\* C33 (as claimed): a sequential run that SIGINT reaches for the first time
\* during the iteration of the last file, or later, ends with every file
\* spawned or counted and with the exit status PROCESS_ERROR if a file was
\* NotExecuted and 0 otherwise.
C33_LateInterruptAbandonsNothing ==
    [](AtLastFileUninterrupted => [](Finished => CompletedEveryFile))

\* the coordinator of a parallel run has finished with file f in its first loop
PastSpawning(f) ==
    \/ InReapingPass
    \/ pc \in {"loop", "validate", "chk963", "chk969", "spawn"} /\ f < i

FullySpawned(f) == Cardinality(ProcsOf(f)) = pipeline.numCmds

\* C34: in parallel mode a file whose validation succeeded gets all its
\* stages spawned, with the flag set or not: once the first loop has moved
\* past the file, every stage process of it exists.
C34_ParallelFlagNeverSuppresses ==
    config.parallel =>
        \A f \in Files :
            (validated[f] = "ok" /\ PastSpawning(f)) => FullySpawned(f)

\* C34 witness: the flag was set when the first file failed validation (it
\* was not counted), and the second file, validated after that, has both
\* stages of its pipeline spawned.
C34_Witness ==
    /\ config.parallel
    /\ sigintReceived
    /\ pipeline.numCmds = 2
    /\ fileList.count = 2
    /\ validated[0] = "bad" /\ counted[0] = 0
    /\ validated[1] = "ok"
    /\ pc = "loop" /\ i = 2
    /\ FullySpawned(1)

\* C35: in parallel mode reap_children is called for a file exactly when a
\* pipeline was spawned for it: a file without processes has a NULL entry
\* (until parallel_process allocates it, just before the first fork) and is
\* counted at most once, on the validation path; the coordinator
\* waits only for a spawned file not counted so far; and when run_pipeline
\* has returned every file was counted once and every process is reaped.
C35_ReapIffSpawned ==
    config.parallel =>
        /\ \A f \in Files :
             /\ counted[f] <= 1
             /\ ~Spawned(f) =>
                  /\ pids[f] = NULL \/ (pc = "spawn" /\ i = f)
                  /\ counted[f] = 1 => validated[f] = "bad"
        /\ pc \in {"reap", "count"} => (Spawned(i) /\ pids[i] # NULL /\ counted[i] = 0)
        /\ PipelineReturned =>
             \A f \in Files : counted[f] = 1 /\ ProcsOf(f) \subseteq Reaped

\* C35 witness: a parallel run of two files has ended; the first file was
\* counted when its validation failed and has no process, the second was
\* spawned, reaped and counted once.
C35_Witness ==
    /\ config.parallel
    /\ Finished
    /\ fileList.count = 2
    /\ validated[0] = "bad" /\ ~Spawned(0) /\ counted[0] = 1
    /\ FullySpawned(1) /\ ProcsOf(1) \subseteq Reaped /\ counted[1] = 1
    /\ stats[NOTEXEC] = 1

\* C36: when a stage process calls execvp() it holds a pipe end at no
\* descriptor other than 0 and 1; a read end it holds is the one of the
\* pipe from the stage before, at descriptor 0 only, and a write end the
\* one of the pipe to the next stage, at descriptor 1 only, for every file.
\* Between two files the coordinator holds no pipe end (C25), so that each
\* end of a pipe is held by at most the one stage it was made for.
C36_NoStrayPipeEnds ==
    px.phase # "idle" =>
        \A n \in DOMAIN px.kids :
            LET kid == px.kids[n]
                first == kid.file * (px.numCmds - 1)
            IN \A p \in 0 .. (px.npipes - 1) :
                 /\ HeldAt(kid.tab, ReadEnd(p)) \subseteq
                      (IF p = first + kid.stage - 1 /\ kid.stage > 0 THEN {0} ELSE {})
                 /\ HeldAt(kid.tab, WriteEnd(p)) \subseteq
                      (IF p = first + kid.stage /\ kid.stage < px.numCmds - 1
                       THEN {1} ELSE {})

\* C36 witness: two files of a two-stage pipeline were spawned from a
\* coordinator started with descriptors 0, 1 and 2; the second file's
\* producer holds the write end of pipe 1 at descriptor 1 and its consumer
\* the read end at descriptor 0, and nothing else of any pipe.
C36_Witness ==
    /\ px.phase = "returned"
    /\ px.numCmds = 2
    /\ px.file = 1
    /\ px.tab0[0] = Std(0) /\ px.tab0[1] = Std(1) /\ px.tab0[2] = Std(2)
    /\ Len(px.kids) = 4
    /\ HeldAt(px.kids[3].tab, WriteEnd(1)) = {1}
    /\ HeldAt(px.kids[4].tab, ReadEnd(1)) = {0}
    /\ PipeEndsHeld(px.kids[3].tab) = { WriteEnd(1) }
    /\ PipeEndsHeld(px.kids[4].tab) = { ReadEnd(1) }

\* C37: when a stage that reads from a pipe ends once no write end of the
\* pipe is held any more, and a first stage ends on its own, every run
\* reaches its exit, in both modes and whenever SIGINT is delivered.
C37_RunAlwaysEnds == <>Finished

\* C37 witness: a parallel two-stage run of two files has ended after an
\* interrupt; all four processes, two of them readers of a pipe, are reaped.
C37_Witness ==
    /\ Finished
    /\ config.parallel
    /\ sigintReceived
    /\ pipeline.numCmds = 2
    /\ fileList.count = 2
    /\ Len(procs) = 4
    /\ px.npipes = 2
    /\ px.kids[2].stdin = ReadEnd(0)
    /\ px.kids[4].stdin = ReadEnd(1)
    /\ Unreaped = {}

\* connections that hold a slot: one accepted whose thread is being created,
\* and the client threads that have not released theirs
SlotsInUse ==
    (IF srv.acceptor = "create" THEN 1 ELSE 0)
      + Cardinality({ t \in DOMAIN srv.clients : srv.clients[t] = "connected" })

\* the slot process_connections has taken and not yet given to a client
SlotInHand == IF srv.acceptor = "accept" THEN 1 ELSE 0

\* C38: with maxConns > 0 the accepted connections that have not released
\* their slot never number more than maxConns, and every slot is either in
\* the semaphore, in use, or taken for the accept() in progress: a failed
\* accept() has given its slot back.
C38_ConnectionLimit ==
    srv.maxConns > 0 =>
        /\ SlotsInUse <= srv.maxConns
        /\ srv.maxConnsLock + SlotInHand + SlotsInUse = srv.maxConns

\* C38 witness: maxConns is 2, one accept() failed, two clients are
\* connected, one client has left, and process_connections has the slot
\* that client released.
C38_Witness ==
    /\ srv.maxConns = 2
    /\ srv.accepts = 4
    /\ Len(srv.clients) = 3
    /\ Cardinality({ t \in DOMAIN srv.clients : srv.clients[t] = "connected" }) = 2
    /\ srv.maxConnsLock = 0
    /\ srv.acceptor = "top"
====
